---- MODULE Spec2Model ----
(***************************************************************************)
(* A model of the sparse merkle tree of haxjump/sparse-merkle-tree:        *)
(* SparseMerkleTree over DefaultStore and SparseMerkleTree2 over           *)
(* DefaultStore2 (src/src/tree.rs, src/src/default_store.rs).              *)
(*                                                                         *)
(* Scaling.  A key is a KeyBits-bit integer instead of a 256-bit one, so   *)
(* the heights are 0..MaxHeight with MaxHeight = KeyBits-1 standing for    *)
(* u8::MAX.  Keys are ordered as H256 orders them (most significant bit    *)
(* first), which is the order of the integers.                             *)
(*                                                                         *)
(* Digests.  A 32-byte value or digest is a tuple: <<v>> for the value v   *)
(* a caller supplies (<<0>> is H256::zero()), and <<h, k, l, r>> for the   *)
(* digest of the bytes h ++ k ++ l ++ r.  The hash is therefore modelled   *)
(* as collision free and never zero.                                       *)
(*                                                                         *)
(* h256.rs, merge.rs, merkle_proof.rs and error.rs are not among the       *)
(* sources; their definitions below follow the specification's sections    *)
(* 3.1, 3.2, 4.1, 4.7 and 4.8 and the way tree.rs and the tests use them.  *)
(***************************************************************************)
EXTENDS Integers, Sequences, FiniteSets, TLC

VARIABLES store, last, noted, hist, proof_out, store2, last2, written

vars == <<store, last, noted, hist, proof_out, store2, last2, written>>

(***************************************************************************)
(* Bounds                                                                  *)
(***************************************************************************)
KeyBits == 3
LowKeys == 3
MaxValue == 2
MaxBatch == 2
MaxOps == 3
MaxProofKeys == 3
MaxXid == 1
LowKeys2 == 1

MaxHeight == KeyBits - 1
Heights == 0..MaxHeight
AllKeys == 0..(2^KeyBits - 1)
\* the keys the calls are made with: the LowKeys lowest keys and the highest
Keys == (0..(LowKeys - 1)) \cup {2^KeyBits - 1}
Values == {<<v>> : v \in 0..MaxValue}

(***************************************************************************)
(* Option<T>                                                               *)
(***************************************************************************)
None == <<>>
Some(x) == <<x>>
is_some(o) == o # None
unwrap(o) == o[1]

(***************************************************************************)
(* H256                                                                    *)
(***************************************************************************)
h256_zero == <<0>>
h256_is_zero(h) == h = h256_zero

Pow2(n) == 2^n

get_bit(k, h) == (k \div Pow2(h)) % 2 = 1
set_bit(k, h) == IF get_bit(k, h) THEN k ELSE k + Pow2(h)
clear_bit(k, h) == IF get_bit(k, h) THEN k - Pow2(h) ELSE k
is_right(k, h) == get_bit(k, h)

\* the bits start..MaxHeight of k, the lower ones cleared
copy_bits(k, start) == (k \div Pow2(start)) * Pow2(start)

\* parent_path that clears the bits below h only and keeps bit h
parent_path_keeps_bit_h(k, h) == copy_bits(k, h)

\* the key of the subtree above height h: the bits 0..h cleared
parent_path(k, h) == IF h = MaxHeight THEN 0 ELSE copy_bits(k, h + 1)

\* the highest bit at which a and b differ, 0 when they are equal
fork_height(a, b) ==
    LET diff == {h \in Heights : get_bit(a, h) # get_bit(b, h)}
    IN  IF diff = {} THEN 0 ELSE CHOOSE h \in diff : \A g \in diff : g <= h

(***************************************************************************)
(* Value, MergeValue and merge                                             *)
(***************************************************************************)
\* impl Value<H> for H256
to_h256(v) == v

MV_Zero == <<"Zero">>
MV_Value(h) == <<"Value", h>>

from_h256(h) == IF h256_is_zero(h) THEN MV_Zero ELSE MV_Value(h)
is_zero(mv) == mv[1] = "Zero"
hash(mv) == IF is_zero(mv) THEN h256_zero ELSE mv[2]

\* the digest of height ++ node_key ++ lhs ++ rhs
Digest(height, node_key, lhs, rhs) == <<height, node_key, lhs, rhs>>

merge(height, node_key, lhs, rhs) ==
    IF is_zero(lhs) /\ is_zero(rhs)
    THEN MV_Zero
    ELSE MV_Value(Digest(height, node_key, hash(lhs), hash(rhs)))

(***************************************************************************)
(* BranchKey, BranchNode                                                   *)
(***************************************************************************)
BranchKey(height, node_key) == <<height, node_key>>
BranchNode(left, right) == [left |-> left, right |-> right]

(***************************************************************************)
(* The maps of vsdb (MapxVs, OrphanVs): a function on the present keys     *)
(***************************************************************************)
EmptyMap == <<>>
map_get(m, k) == IF k \in DOMAIN m THEN Some(m[k]) ELSE None
map_insert(m, k, v) == [x \in DOMAIN m \cup {k} |-> IF x = k THEN v ELSE m[x]]
map_remove(m, k) == [x \in DOMAIN m \ {k} |-> m[x]]

(***************************************************************************)
(* DefaultStore: the root cell, the branches and the leaves                *)
(***************************************************************************)
DefaultStore == [root |-> None, branches_map |-> EmptyMap, leaves_map |-> EmptyMap]

insert_branch(s, branch_key, branch) ==
    [s EXCEPT !.branches_map = map_insert(@, branch_key, branch)]
remove_branch(s, branch_key) ==
    [s EXCEPT !.branches_map = map_remove(@, branch_key)]
get_branch(s, branch_key) == map_get(s.branches_map, branch_key)

insert_leaf(s, leaf_key, leaf) ==
    [s EXCEPT !.leaves_map = map_insert(@, leaf_key, leaf)]
remove_leaf(s, leaf_key) ==
    [s EXCEPT !.leaves_map = map_remove(@, leaf_key)]
get_leaf(s, leaf_key) == map_get(s.leaves_map, leaf_key)

update_root(s, new_root) == [s EXCEPT !.root = Some(new_root)]
get_root(s) == IF is_some(s.root) THEN unwrap(s.root) ELSE h256_zero

(***************************************************************************)
(* SparseMerkleTree                                                        *)
(***************************************************************************)
root(s) == get_root(s)
is_empty(s) == h256_is_zero(root(s))

\* branch_children forgetting the stored branch: the sibling is taken as Zero
branch_children_no_sibling(s, parent_branch_key, current_key, current_node, height) ==
    IF is_right(current_key, height)
    THEN <<MV_Zero, current_node>>
    ELSE <<current_node, MV_Zero>>

\* the children of the branch above current_key once current_node is in place
branch_children(s, parent_branch_key, current_key, current_node, height) ==
    LET parent_branch == get_branch(s, parent_branch_key)
    IN  IF is_some(parent_branch)
        THEN IF is_right(current_key, height)
             THEN <<unwrap(parent_branch).left, current_node>>
             ELSE <<current_node, unwrap(parent_branch).right>>
        ELSE IF is_right(current_key, height)
             THEN <<MV_Zero, current_node>>
             ELSE <<current_node, MV_Zero>>

\* store_branch persisting the empty branch instead of removing it
store_branch_keep_empty(s, parent_branch_key, left, right) ==
    insert_branch(s, parent_branch_key, BranchNode(left, right))

\* insert or update the branch, or remove it when it is empty
store_branch(s, parent_branch_key, left, right) ==
    IF ~is_zero(left) \/ ~is_zero(right)
    THEN insert_branch(s, parent_branch_key, BranchNode(left, right))
    ELSE remove_branch(s, parent_branch_key)

RECURSIVE hash_recompute_from(_, _, _, _)
hash_recompute_from(s, current_key, current_node, height) ==
    IF height > MaxHeight
    THEN update_root(s, hash(current_node))
    ELSE LET parent_key == parent_path(current_key, height)
             parent_branch_key == BranchKey(height, parent_key)
             lr == branch_children(s, parent_branch_key, current_key,
                                   current_node, height)
             s1 == store_branch(s, parent_branch_key, lr[1], lr[2])
         IN  hash_recompute_from(s1, parent_key,
                                 merge(height, parent_key, lr[1], lr[2]),
                                 height + 1)

hash_recompute(s, key, node) == hash_recompute_from(s, key, node, 0)

\* remove recomputing the hashes but leaving the leaf in the store
remove_keeps_leaf(s, key) == hash_recompute(s, key, MV_Zero)

remove(s, key) == hash_recompute(remove_leaf(s, key), key, MV_Zero)

\* update leaving the branches and the root alone when it overwrites a leaf
update_overwrite_keeps_root(s, key, value) ==
    IF key \in DOMAIN s.leaves_map /\ ~h256_is_zero(to_h256(value))
    THEN insert_leaf(s, key, value)
    ELSE hash_recompute(IF ~h256_is_zero(to_h256(value))
                        THEN insert_leaf(s, key, value)
                        ELSE remove_leaf(s, key),
                        key, from_h256(to_h256(value)))

update(s, key, value) ==
    LET node == from_h256(to_h256(value))
        s1 == IF ~is_zero(node)
              THEN insert_leaf(s, key, value)
              ELSE remove_leaf(s, key)
    IN  hash_recompute(s1, key, node)

get(s, key) == IF is_empty(s) THEN None ELSE get_leaf(s, key)

(***************************************************************************)
(* Vec: reverse, the stable sort by key, dedup by key                      *)
(***************************************************************************)
RECURSIVE reverse(_)
reverse(v) == IF v = <<>> THEN <<>> ELSE Append(reverse(Tail(v)), Head(v))

\* e put behind the last element of the sorted v whose key is <= key(e)
RECURSIVE insert_sorted(_, _, _)
insert_sorted(v, e, k) ==
    IF v = <<>> THEN <<e>>
    ELSE IF Head(v)[k] <= e[k]
         THEN <<Head(v)>> \o insert_sorted(Tail(v), e, k)
         ELSE <<e>> \o v

\* slice::sort_by_key on field k of the elements: stable
RECURSIVE sort_by_key(_, _)
sort_by_key(v, k) ==
    IF v = <<>> THEN <<>>
    ELSE insert_sorted(sort_by_key(SubSeq(v, 1, Len(v) - 1), k), v[Len(v)], k)

\* Vec::dedup_by_key: of consecutive elements with one key the first is kept
RECURSIVE dedup_by_key(_, _)
dedup_by_key(v, k) ==
    IF Len(v) <= 1 THEN v
    ELSE LET rest == dedup_by_key(Tail(v), k)
         IN  IF Head(v)[k] = Head(rest)[k]
             THEN <<Head(v)>> \o Tail(rest)
             ELSE <<Head(v)>> \o rest

(***************************************************************************)
(* SparseMerkleTree: update_all, remove_all                                *)
(* A call ends in [panicked, store]: the store as the call left it, and    *)
(* whether it ended in a panic instead of returning.                       *)
(***************************************************************************)
Returned(s) == [panicked |-> FALSE, store |-> s]
Panicked(s) == [panicked |-> TRUE, store |-> s]

\* hash_recompute_all without the neighbor test: every sibling from the store
neighbor_not_tested(nodes, i, height) == None

\* the neighbor test: the value of nodes[i + 1] when it is the right sibling
neighbor(nodes, i, height) ==
    IF i + 1 <= Len(nodes) /\ ~is_right(nodes[i][1], height)
       /\ set_bit(nodes[i][1], height) = nodes[i + 1][1]
    THEN Some(nodes[i + 1][2])
    ELSE None

\* one height of hash_recompute_all, from nodes[i] on: <<store, next_nodes>>
RECURSIVE recompute_level(_, _, _, _, _)
recompute_level(s, nodes, height, i, next_nodes) ==
    IF i > Len(nodes) THEN <<s, next_nodes>>
    ELSE LET current_key == nodes[i][1]
             current_merge_value == nodes[i][2]
             parent_key == parent_path(current_key, height)
             parent_branch_key == BranchKey(height, parent_key)
             right == neighbor(nodes, i, height)
             lr == IF is_some(right)
                   THEN <<current_merge_value, unwrap(right)>>
                   ELSE branch_children(s, parent_branch_key, current_key,
                                        current_merge_value, height)
             s1 == store_branch(s, parent_branch_key, lr[1], lr[2])
         IN  recompute_level(s1, nodes, height,
                 IF is_some(right) THEN i + 2 ELSE i + 1,
                 Append(next_nodes,
                        <<parent_key, merge(height, parent_key, lr[1], lr[2])>>))

RECURSIVE hash_recompute_all_from(_, _, _)
hash_recompute_all_from(s, nodes, height) ==
    IF height > MaxHeight
    THEN IF Len(nodes) = 1
         THEN Returned(update_root(s, hash(nodes[1][2])))
         ELSE Panicked(s)
    ELSE LET r == recompute_level(s, nodes, height, 1, <<>>)
         IN  hash_recompute_all_from(r[1], r[2], height + 1)

hash_recompute_all(s, nodes) == hash_recompute_all_from(s, nodes, 0)

\* the leaf writes of update_all without the test of the value: a zero value
\* is stored as any other
RECURSIVE write_leaves_inserts_zero(_, _, _)
write_leaves_inserts_zero(s, leaves, nodes) ==
    IF leaves = <<>> THEN <<s, nodes>>
    ELSE LET k == Head(leaves)[1]
             v == Head(leaves)[2]
             value == from_h256(to_h256(v))
         IN  write_leaves_inserts_zero(insert_leaf(s, k, v), Tail(leaves),
                                       Append(nodes, <<k, value>>))

\* the leaf writes of update_all: <<store, nodes>>
RECURSIVE write_leaves(_, _, _)
write_leaves(s, leaves, nodes) ==
    IF leaves = <<>> THEN <<s, nodes>>
    ELSE LET k == Head(leaves)[1]
             v == Head(leaves)[2]
             value == from_h256(to_h256(v))
             s1 == IF ~is_zero(value) THEN insert_leaf(s, k, v)
                   ELSE remove_leaf(s, k)
         IN  write_leaves(s1, Tail(leaves), Append(nodes, <<k, value>>))

\* update_all without leaves.reverse(): of the pairs of one key the first stays
update_all_no_reverse(s, leaves) ==
    LET sorted == dedup_by_key(sort_by_key(leaves, 1), 1)
        w == write_leaves(s, sorted, <<>>)
    IN  hash_recompute_all(w[1], w[2])

update_all(s, leaves) ==
    LET sorted == dedup_by_key(sort_by_key(reverse(leaves), 1), 1)
        w == write_leaves(s, sorted, <<>>)
    IN  hash_recompute_all(w[1], w[2])

\* the leaf removals of remove_all: <<store, nodes>>
RECURSIVE remove_leaves(_, _, _)
remove_leaves(s, keys, nodes) ==
    IF keys = <<>> THEN <<s, nodes>>
    ELSE remove_leaves(remove_leaf(s, Head(keys)[1]), Tail(keys),
                       Append(nodes, <<Head(keys)[1], MV_Zero>>))

\* keys: a sequence of <<key>>
remove_all(s, keys) ==
    LET sorted == dedup_by_key(sort_by_key(reverse(keys), 1), 1)
        w == remove_leaves(s, sorted, <<>>)
    IN  hash_recompute_all(w[1], w[2])

(***************************************************************************)
(* A store one of whose writes fails.  The writes of DefaultStore go       *)
(* through chg_store!, which returns Err(Error::Store) from the store      *)
(* operation, and the tree passes it on with `?`; its reads return Ok.     *)
(* [store, writes_left, err]: the store so far, the number of writes that  *)
(* still succeed, and whether a write has failed, which ends the call.     *)
(***************************************************************************)
FailingStore(s, fail_at) == [store |-> s, writes_left |-> fail_at - 1, err |-> FALSE]

\* chg_store! over a write that takes effect and then reports the error
chg_store_after_write(fs, store_written) ==
    IF fs.err THEN fs
    ELSE IF fs.writes_left = 0 THEN [fs EXCEPT !.store = store_written, !.err = TRUE]
    ELSE [store |-> store_written, writes_left |-> fs.writes_left - 1,
          err |-> FALSE]

\* chg_store!(op): the write done, or the error and nothing written
chg_store(fs, store_written) ==
    IF fs.err THEN fs
    ELSE IF fs.writes_left = 0 THEN [fs EXCEPT !.err = TRUE]
    ELSE [store |-> store_written, writes_left |-> fs.writes_left - 1,
          err |-> FALSE]

RECURSIVE hash_recompute_from_failing(_, _, _, _)
hash_recompute_from_failing(fs, current_key, current_node, height) ==
    IF fs.err THEN fs
    ELSE IF height > MaxHeight
    THEN chg_store(fs, update_root(fs.store, hash(current_node)))
    ELSE LET parent_key == parent_path(current_key, height)
             parent_branch_key == BranchKey(height, parent_key)
             lr == branch_children(fs.store, parent_branch_key, current_key,
                                   current_node, height)
             fs1 == chg_store(fs, store_branch(fs.store, parent_branch_key,
                                               lr[1], lr[2]))
         IN  hash_recompute_from_failing(fs1, parent_key,
                                         merge(height, parent_key, lr[1], lr[2]),
                                         height + 1)

\* update over a store whose write number fail_at fails
update_failing(s, key, value, fail_at) ==
    LET node == from_h256(to_h256(value))
        fs == FailingStore(s, fail_at)
        fs1 == chg_store(fs, IF ~is_zero(node)
                             THEN insert_leaf(s, key, value)
                             ELSE remove_leaf(s, key))
    IN  hash_recompute_from_failing(fs1, key, node, 0)

remove_failing(s, key, fail_at) ==
    LET fs == FailingStore(s, fail_at)
        fs1 == chg_store(fs, remove_leaf(s, key))
    IN  hash_recompute_from_failing(fs1, key, MV_Zero, 0)

RECURSIVE recompute_level_failing(_, _, _, _, _)
recompute_level_failing(fs, nodes, height, i, next_nodes) ==
    IF fs.err \/ i > Len(nodes) THEN <<fs, next_nodes>>
    ELSE LET current_key == nodes[i][1]
             current_merge_value == nodes[i][2]
             parent_key == parent_path(current_key, height)
             parent_branch_key == BranchKey(height, parent_key)
             right == neighbor(nodes, i, height)
             lr == IF is_some(right)
                   THEN <<current_merge_value, unwrap(right)>>
                   ELSE branch_children(fs.store, parent_branch_key,
                                        current_key, current_merge_value, height)
             fs1 == chg_store(fs, store_branch(fs.store, parent_branch_key,
                                               lr[1], lr[2]))
         IN  recompute_level_failing(fs1, nodes, height,
                 IF is_some(right) THEN i + 2 ELSE i + 1,
                 Append(next_nodes,
                        <<parent_key, merge(height, parent_key, lr[1], lr[2])>>))

\* [store, err, panicked]
RECURSIVE hash_recompute_all_from_failing(_, _, _)
hash_recompute_all_from_failing(fs, nodes, height) ==
    IF fs.err THEN [store |-> fs.store, err |-> TRUE, panicked |-> FALSE]
    ELSE IF height > MaxHeight
    THEN IF Len(nodes) = 1
         THEN LET fs1 == chg_store(fs, update_root(fs.store, hash(nodes[1][2])))
              IN  [store |-> fs1.store, err |-> fs1.err, panicked |-> FALSE]
         ELSE [store |-> fs.store, err |-> FALSE, panicked |-> TRUE]
    ELSE LET r == recompute_level_failing(fs, nodes, height, 1, <<>>)
         IN  hash_recompute_all_from_failing(r[1], r[2], height + 1)

RECURSIVE write_leaves_failing(_, _, _)
write_leaves_failing(fs, leaves, nodes) ==
    IF fs.err \/ leaves = <<>> THEN <<fs, nodes>>
    ELSE LET k == Head(leaves)[1]
             v == Head(leaves)[2]
             value == from_h256(to_h256(v))
             fs1 == chg_store(fs, IF ~is_zero(value)
                                  THEN insert_leaf(fs.store, k, v)
                                  ELSE remove_leaf(fs.store, k))
         IN  write_leaves_failing(fs1, Tail(leaves), Append(nodes, <<k, value>>))

update_all_failing(s, leaves, fail_at) ==
    LET sorted == dedup_by_key(sort_by_key(reverse(leaves), 1), 1)
        w == write_leaves_failing(FailingStore(s, fail_at), sorted, <<>>)
    IN  hash_recompute_all_from_failing(w[1], w[2], 0)

RECURSIVE remove_leaves_failing(_, _, _)
remove_leaves_failing(fs, keys, nodes) ==
    IF fs.err \/ keys = <<>> THEN <<fs, nodes>>
    ELSE remove_leaves_failing(
             chg_store(fs, remove_leaf(fs.store, Head(keys)[1])), Tail(keys),
             Append(nodes, <<Head(keys)[1], MV_Zero>>))

remove_all_failing(s, keys, fail_at) ==
    LET sorted == dedup_by_key(sort_by_key(reverse(keys), 1), 1)
        w == remove_leaves_failing(FailingStore(s, fail_at), sorted, <<>>)
    IN  hash_recompute_all_from_failing(w[1], w[2], 0)

(***************************************************************************)
(* DefaultStore2: the roots by xid, the branches by (xid, BranchKey) and   *)
(* the leaves by (xid, key).  A MapxDkVs is a function on the present      *)
(* pairs of keys; remove(&(xid, None)) drops every pair that starts xid.   *)
(***************************************************************************)
DefaultStore2 == [root |-> EmptyMap, branches_map |-> EmptyMap, leaves_map |-> EmptyMap]

\* MapxDkVs::remove(&(xid, None))
map_remove_x(m, xid) == [x \in {y \in DOMAIN m : y[1] # xid} |-> m[x]]

insert_branch2(s, xid, node_key, branch) ==
    [s EXCEPT !.branches_map = map_insert(@, <<xid, node_key>>, branch)]
remove_branch2(s, xid, node_key) ==
    [s EXCEPT !.branches_map = map_remove(@, <<xid, node_key>>)]
get_branch2(s, xid, branch_key) == map_get(s.branches_map, <<xid, branch_key>>)

insert_leaf2(s, xid, leaf_key, leaf) ==
    [s EXCEPT !.leaves_map = map_insert(@, <<xid, leaf_key>>, leaf)]
remove_leaf2(s, xid, leaf_key) ==
    [s EXCEPT !.leaves_map = map_remove(@, <<xid, leaf_key>>)]
get_leaf2(s, xid, leaf_key) == map_get(s.leaves_map, <<xid, leaf_key>>)

\* remove_x dropping the leaves of every xid
store_remove_x_all_leaves(s, xid) ==
    [root |-> map_remove(s.root, xid),
     branches_map |-> map_remove_x(s.branches_map, xid),
     leaves_map |-> EmptyMap]

\* remove_x leaving the branches of xid in the store
store_remove_x_keep_branches(s, xid) ==
    [root |-> map_remove(s.root, xid),
     branches_map |-> s.branches_map,
     leaves_map |-> map_remove_x(s.leaves_map, xid)]

\* DefaultStore2::remove_x
store_remove_x(s, xid) ==
    [root |-> map_remove(s.root, xid),
     branches_map |-> map_remove_x(s.branches_map, xid),
     leaves_map |-> map_remove_x(s.leaves_map, xid)]

\* DefaultStore2::remove_x when the fail_at-th of its three removals returns
\* Err: chg_store! returns the error at once, the removals before it are
\* done and the failing one and those after it are not.  [err, store]
store_remove_x_failing(s, xid, fail_at) ==
    [err |-> fail_at \in 1..3,
     store |->
        [root |-> IF fail_at = 1 THEN s.root ELSE map_remove(s.root, xid),
         branches_map |-> IF fail_at \in 1..2 THEN s.branches_map
                          ELSE map_remove_x(s.branches_map, xid),
         leaves_map |-> IF fail_at \in 1..3 THEN s.leaves_map
                        ELSE map_remove_x(s.leaves_map, xid)]]

update_root2(s, xid, new_root) == [s EXCEPT !.root = map_insert(@, xid, new_root)]
get_root2(s, xid) ==
    IF is_some(map_get(s.root, xid)) THEN unwrap(map_get(s.root, xid))
    ELSE h256_zero

(***************************************************************************)
(* SparseMerkleTree2                                                       *)
(***************************************************************************)
root2(s, xid) == get_root2(s, xid)
is_empty2(s, xid) == h256_is_zero(root2(s, xid))

branch_children2(s, xid, parent_branch_key, current_key, current_node, height) ==
    LET parent_branch == get_branch2(s, xid, parent_branch_key)
    IN  IF is_some(parent_branch)
        THEN IF is_right(current_key, height)
             THEN <<unwrap(parent_branch).left, current_node>>
             ELSE <<current_node, unwrap(parent_branch).right>>
        ELSE IF is_right(current_key, height)
             THEN <<MV_Zero, current_node>>
             ELSE <<current_node, MV_Zero>>

store_branch2(s, xid, parent_branch_key, left, right) ==
    IF ~is_zero(left) \/ ~is_zero(right)
    THEN insert_branch2(s, xid, parent_branch_key, BranchNode(left, right))
    ELSE remove_branch2(s, xid, parent_branch_key)

RECURSIVE hash_recompute_from2(_, _, _, _, _)
hash_recompute_from2(s, xid, current_key, current_node, height) ==
    IF height > MaxHeight
    THEN update_root2(s, xid, hash(current_node))
    ELSE LET parent_key == parent_path(current_key, height)
             parent_branch_key == BranchKey(height, parent_key)
             lr == branch_children2(s, xid, parent_branch_key, current_key,
                                    current_node, height)
             s1 == store_branch2(s, xid, parent_branch_key, lr[1], lr[2])
         IN  hash_recompute_from2(s1, xid, parent_key,
                                  merge(height, parent_key, lr[1], lr[2]),
                                  height + 1)

hash_recompute2(s, xid, key, node) == hash_recompute_from2(s, xid, key, node, 0)

remove2(s, xid, key) == hash_recompute2(remove_leaf2(s, xid, key), xid, key, MV_Zero)

update2(s, xid, key, value) ==
    LET node == from_h256(to_h256(value))
        s1 == IF ~is_zero(node)
              THEN insert_leaf2(s, xid, key, value)
              ELSE remove_leaf2(s, xid, key)
    IN  hash_recompute2(s1, xid, key, node)

get2(s, xid, key) == IF is_empty2(s, xid) THEN None ELSE get_leaf2(s, xid, key)

\* SparseMerkleTree2::remove_x
remove_x(s, xid) == store_remove_x(s, xid)

\* SparseMerkleTree2::remove_x over a store whose removal fail_at fails
remove_x_failing(s, xid, fail_at) == store_remove_x_failing(s, xid, fail_at)

RECURSIVE recompute_level2(_, _, _, _, _, _)
recompute_level2(s, xid, nodes, height, i, next_nodes) ==
    IF i > Len(nodes) THEN <<s, next_nodes>>
    ELSE LET current_key == nodes[i][1]
             current_merge_value == nodes[i][2]
             parent_key == parent_path(current_key, height)
             parent_branch_key == BranchKey(height, parent_key)
             right == neighbor(nodes, i, height)
             lr == IF is_some(right)
                   THEN <<current_merge_value, unwrap(right)>>
                   ELSE branch_children2(s, xid, parent_branch_key, current_key,
                                         current_merge_value, height)
             s1 == store_branch2(s, xid, parent_branch_key, lr[1], lr[2])
         IN  recompute_level2(s1, xid, nodes, height,
                 IF is_some(right) THEN i + 2 ELSE i + 1,
                 Append(next_nodes,
                        <<parent_key, merge(height, parent_key, lr[1], lr[2])>>))

RECURSIVE hash_recompute_all_from2(_, _, _, _)
hash_recompute_all_from2(s, xid, nodes, height) ==
    IF height > MaxHeight
    THEN IF Len(nodes) = 1
         THEN Returned(update_root2(s, xid, hash(nodes[1][2])))
         ELSE Panicked(s)
    ELSE LET r == recompute_level2(s, xid, nodes, height, 1, <<>>)
         IN  hash_recompute_all_from2(r[1], xid, r[2], height + 1)

hash_recompute_all2(s, xid, nodes) == hash_recompute_all_from2(s, xid, nodes, 0)

RECURSIVE write_leaves2(_, _, _, _)
write_leaves2(s, xid, leaves, nodes) ==
    IF leaves = <<>> THEN <<s, nodes>>
    ELSE LET k == Head(leaves)[1]
             v == Head(leaves)[2]
             value == from_h256(to_h256(v))
             s1 == IF ~is_zero(value) THEN insert_leaf2(s, xid, k, v)
                   ELSE remove_leaf2(s, xid, k)
         IN  write_leaves2(s1, xid, Tail(leaves), Append(nodes, <<k, value>>))

update_all2(s, xid, leaves) ==
    LET sorted == dedup_by_key(sort_by_key(reverse(leaves), 1), 1)
        w == write_leaves2(s, xid, sorted, <<>>)
    IN  hash_recompute_all2(w[1], xid, w[2])

RECURSIVE remove_leaves2(_, _, _, _)
remove_leaves2(s, xid, keys, nodes) ==
    IF keys = <<>> THEN <<s, nodes>>
    ELSE remove_leaves2(remove_leaf2(s, xid, Head(keys)[1]), xid, Tail(keys),
                        Append(nodes, <<Head(keys)[1], MV_Zero>>))

\* keys: a sequence of <<key>>
remove_all2(s, xid, keys) ==
    LET sorted == dedup_by_key(sort_by_key(reverse(keys), 1), 1)
        w == remove_leaves2(s, xid, sorted, <<>>)
    IN  hash_recompute_all2(w[1], xid, w[2])

(***************************************************************************)
(* Spec: one SparseMerkleTree driven by update and remove.                 *)
(*   last   the last call, and the store before it when the call wrote     *)
(*          zero to a key that held no leaf                                *)
(*   noted  the root noted before the last update(k, v # 0), and whether   *)
(*          update(k, zero) followed it at once                            *)
(***************************************************************************)
NoCall == [op |-> "new", key |-> 0, noop |-> FALSE, pre |-> None,
           panicked |-> FALSE, dup |-> FALSE, expect |-> None,
           err |-> FALSE, fail_at |-> 0, args |-> <<>>]
NoNote == [state |-> "none", key |-> 0, root |-> h256_zero, fresh |-> FALSE]
NoCall2 == [op |-> "new", xid |-> 0, panicked |-> FALSE, held |-> 0,
            err |-> FALSE, pre |-> None]

has_leaf(s, key) == key \in DOMAIN s.leaves_map

Note(s, key, value) ==
    IF ~h256_is_zero(to_h256(value))
    THEN [state |-> "noted", key |-> key, root |-> root(s),
          fresh |-> ~has_leaf(s, key)]
    ELSE IF noted.state = "noted" /\ noted.key = key
         THEN [noted EXCEPT !.state = "restored"]
         ELSE NoNote

Update(key, value) ==
    /\ store' = update(store, key, value)
    /\ last' = LET noop == h256_is_zero(to_h256(value)) /\ ~has_leaf(store, key)
               IN  [NoCall EXCEPT !.op = "update", !.key = key, !.noop = noop,
                                  !.pre = IF noop THEN Some(store) ELSE None]
    /\ noted' = Note(store, key, value)
    /\ UNCHANGED <<hist, proof_out, store2, last2, written>>

Remove(key) ==
    /\ store' = remove(store, key)
    /\ last' = LET noop == ~has_leaf(store, key)
               IN  [NoCall EXCEPT !.op = "remove", !.key = key, !.noop = noop,
                                  !.pre = IF noop THEN Some(store) ELSE None]
    /\ noted' = NoNote
    /\ UNCHANGED <<hist, proof_out, store2, last2, written>>

Init ==
    /\ store = DefaultStore
    /\ last = NoCall
    /\ noted = NoNote
    /\ hist = <<>>
    /\ proof_out = None
    /\ store2 = DefaultStore2
    /\ last2 = NoCall2
    /\ written = EmptyMap

Next ==
    \/ \E key \in Keys, value \in Values : Update(key, value)
    \/ \E key \in Keys : Remove(key)

Spec == Init /\ [][Next]_vars

(***************************************************************************)
(* C2.  As stated: update(k, v # 0) followed at once by update(k, zero)    *)
(* leaves the root that was there before the first of the two, for every   *)
(* key k.  It fails when k held a leaf before the first update: the leaf   *)
(* is overwritten, then deleted.                                           *)
(***************************************************************************)
C2_AnyKeyRestoresRoot ==
    noted.state = "restored" => root(store) = noted.root

\* C2 (amended): for a key k that holds no leaf, update(k, v # 0) followed
\* at once by update(k, zero) leaves exactly the root noted before the first.
C2_FreshKeyRestoresRoot ==
    (noted.state = "restored" /\ noted.fresh) => root(store) = noted.root

C2_Witness ==
    /\ noted.state = "restored"
    /\ noted.fresh
    /\ ~h256_is_zero(noted.root)
    /\ root(store) = noted.root

(***************************************************************************)
(* C3.  update(k, zero) for a key k that holds no leaf leaves root(), the  *)
(* leaves and the branches as they were; on an empty tree the root stays   *)
(* zero and both maps stay empty.                                          *)
(***************************************************************************)
C3_ZeroOnAbsentKeyChangesNothing ==
    (last.op = "update" /\ last.noop) =>
        LET pre == unwrap(last.pre)
        IN  /\ root(store) = root(pre)
            /\ store.leaves_map = pre.leaves_map
            /\ store.branches_map = pre.branches_map
            /\ (pre = DefaultStore =>
                    /\ h256_is_zero(root(store))
                    /\ DOMAIN store.leaves_map = {}
                    /\ DOMAIN store.branches_map = {})

C3_Witness ==
    /\ last.op = "update"
    /\ last.noop
    /\ ~has_leaf(store, last.key)
    /\ DOMAIN store.leaves_map # {}
    /\ ~h256_is_zero(root(store))

(***************************************************************************)
(* SpecBatch: one SparseMerkleTree driven by update_all and remove_all     *)
(* (and update).  last.expect is the root the same store reaches when the  *)
(* batch is applied one call at a time.                                    *)
(***************************************************************************)
Pairs == {<<k, v>> : k \in Keys, v \in Values}
Batches == UNION {[1..n -> Pairs] : n \in 0..MaxBatch}
KeyLists == UNION {[1..n -> {<<k>> : k \in Keys}] : n \in 0..MaxBatch}

\* the pairs of batch whose key does not occur again later, in caller order
RECURSIVE dedup_last_wins(_)
dedup_last_wins(batch) ==
    IF batch = <<>> THEN <<>>
    ELSE IF \E j \in 2..Len(batch) : batch[j][1] = batch[1][1]
         THEN dedup_last_wins(Tail(batch))
         ELSE <<Head(batch)>> \o dedup_last_wins(Tail(batch))

\* update called for each pair in turn.  (The test on s1 makes TLC evaluate
\* one call before it starts the next; every call writes the root cell.)
RECURSIVE update_each(_, _)
update_each(s, pairs) ==
    IF pairs = <<>> THEN s
    ELSE LET s1 == update(s, Head(pairs)[1], Head(pairs)[2])
         IN  IF is_some(s1.root) THEN update_each(s1, Tail(pairs)) ELSE s1

\* remove called for each key in turn
RECURSIVE remove_each(_, _)
remove_each(s, keys) ==
    IF keys = <<>> THEN s
    ELSE LET s1 == remove(s, Head(keys)[1])
         IN  IF is_some(s1.root) THEN remove_each(s1, Tail(keys)) ELSE s1

has_dup(v) == \E i, j \in 1..Len(v) : i < j /\ v[i][1] = v[j][1]

UpdateAll(batch) ==
    /\ LET r == update_all(store, batch)
       IN  /\ store' = r.store
           /\ last' = [NoCall EXCEPT
                          !.op = "update_all",
                          !.panicked = r.panicked,
                          !.dup = has_dup(batch),
                          !.expect = Some(root(update_each(store,
                                                 dedup_last_wins(batch))))]
    /\ UNCHANGED <<noted, hist, proof_out, store2, last2, written>>

RemoveAll(keys) ==
    /\ LET r == remove_all(store, keys)
       IN  /\ store' = r.store
           /\ last' = [NoCall EXCEPT
                          !.op = "remove_all",
                          !.panicked = r.panicked,
                          !.dup = has_dup(keys),
                          !.expect = Some(root(remove_each(store, keys)))]
    /\ UNCHANGED <<noted, hist, proof_out, store2, last2, written>>

UpdateOne(key, value) ==
    /\ store' = update(store, key, value)
    /\ last' = [NoCall EXCEPT !.op = "update", !.key = key]
    /\ UNCHANGED <<noted, hist, proof_out, store2, last2, written>>

RemoveOne(key) ==
    /\ store' = remove(store, key)
    /\ last' = [NoCall EXCEPT !.op = "remove", !.key = key,
                              !.noop = ~has_leaf(store, key)]
    /\ UNCHANGED <<noted, hist, proof_out, store2, last2, written>>

NextBatch ==
    \/ \E batch \in Batches : UpdateAll(batch)
    \/ \E keys \in KeyLists : RemoveAll(keys)
    \/ \E key \in Keys, value \in Values : UpdateOne(key, value)
    \/ \E key \in Keys : RemoveOne(key)

SpecBatch == Init /\ [][NextBatch]_vars

(***************************************************************************)
(* C4.  update_all(B) yields the root that update, applied one pair at a   *)
(* time over the deduplicated last-wins sequence of B, yields; and         *)
(* remove_all(keys) the root of the corresponding remove calls: for every  *)
(* batch, so every call returns a root.                                    *)
(***************************************************************************)
C4_BatchEqualsSequence ==
    last.op \in {"update_all", "remove_all"} =>
        /\ ~last.panicked
        /\ root(store) = unwrap(last.expect)

\* what holds of the code: a batch that is not empty returns, with the root
\* of the one-at-a-time sequence
C4_NonEmptyBatchEqualsSequence ==
    (last.op \in {"update_all", "remove_all"} /\ ~last.panicked) =>
        root(store) = unwrap(last.expect)

C4_DupWitness ==
    /\ last.op = "update_all"
    /\ last.dup
    /\ ~last.panicked
    /\ Cardinality(DOMAIN store.leaves_map) >= 2
    /\ root(store) = unwrap(last.expect)

(***************************************************************************)
(* SpecPerm: a tree built from the empty one by updates with values that   *)
(* are not zero; hist is the sequence of the pairs written so far.         *)
(***************************************************************************)
NonZeroValues == {v \in Values : ~h256_is_zero(to_h256(v))}

UpdatePerm(key, value) ==
    /\ Len(hist) < MaxOps
    /\ store' = update(store, key, value)
    /\ hist' = Append(hist, <<key, value>>)
    /\ UNCHANGED <<last, noted, proof_out, store2, last2, written>>

NextPerm == \E key \in Keys, value \in NonZeroValues : UpdatePerm(key, value)

SpecPerm == Init /\ [][NextPerm]_vars

\* the sequences that hold the elements of v in another order
Reorderings(v) ==
    {[i \in 1..Len(v) |-> v[f[i]]] : f \in Permutations(1..Len(v))}

\* no key is written with two different values
one_value_per_key(v) ==
    \A i, j \in 1..Len(v) : v[i][1] = v[j][1] => v[i][2] = v[j][2]

(***************************************************************************)
(* C1.  As stated: from the empty tree, the updates of any sequence of     *)
(* pairs with values that are not zero give the same root in every order.  *)
(* It fails for a sequence that writes one key with two different values:  *)
(* the last write wins, and the order decides which one is last.           *)
(***************************************************************************)
C1_AnyOrderSameRoot ==
    \A p \in Reorderings(hist) : root(update_each(DefaultStore, p)) = root(store)

\* C1 (amended): when no key occurs in the sequence with two different
\* values, the updates give the same root in every order.
C1_AnyOrderSameRootOneValuePerKey ==
    one_value_per_key(hist) =>
        \A p \in Reorderings(hist) :
            root(update_each(DefaultStore, p)) = root(store)

C1_Witness ==
    /\ Len(hist) = MaxOps
    /\ Cardinality({hist[i][1] : i \in 1..Len(hist)}) = Len(hist)
    /\ store = update_each(DefaultStore, reverse(hist))
    /\ ~h256_is_zero(root(store))

(***************************************************************************)
(* SparseMerkleTree::merkle_proof                                          *)
(* The result is [status, leaves_bitmap, proof, stack_top]: status is "Ok",*)
(* "EmptyKeys" or "panic" (unreachable!(), or the fork-height stack        *)
(* overrun); stack_top is the depth the sibling pass ended with, which     *)
(* debug_assert_eq! compares with 1.  A bitmap is an H256 read bit by bit. *)
(***************************************************************************)
MAX_STACK_SIZE == KeyBits + 1

MerkleProof(leaves_bitmap, proof) ==
    [leaves_bitmap |-> leaves_bitmap, proof |-> proof]

\* keys.sort_unstable()
sort_unstable(keys) == SortSeq(keys, LAMBDA a, b : a < b)

\* sibling_of taking the child on the key's own side
sibling_of_own_side(parent_branch, right) ==
    IF right THEN parent_branch.right ELSE parent_branch.left

\* the child of parent_branch opposite to the key
sibling_of(parent_branch, right) ==
    IF right THEN parent_branch.left ELSE parent_branch.right

\* the bitmap of current_key, from height on: bit h is set when the branch
\* above the key at h exists and the sibling there is not zero
RECURSIVE bitmap_from(_, _, _, _)
bitmap_from(s, current_key, height, bitmap) ==
    IF height > MaxHeight THEN bitmap
    ELSE LET parent_key == parent_path(current_key, height)
             parent_branch == get_branch(s, BranchKey(height, parent_key))
             next == IF is_some(parent_branch)
                        /\ ~is_zero(sibling_of(unwrap(parent_branch),
                                               is_right(current_key, height)))
                     THEN set_bit(bitmap, height)
                     ELSE bitmap
         IN  bitmap_from(s, current_key, height + 1, next)

collect_bitmaps(s, keys) ==
    [i \in 1..Len(keys) |-> bitmap_from(s, keys[i], 0, 0)]

\* the state of the sibling pass
NewWalk ==
    [proof |-> <<>>,
     stack_fork_height |-> [i \in 0..(MAX_STACK_SIZE - 1) |-> 0],
     stack_top |-> 0,
     panicked |-> FALSE]

\* sibling_walk without the pop: the sibling is taken from the store also
\* when the leaf before covers it
RECURSIVE sibling_walk_no_pop(_, _, _, _, _, _, _)
sibling_walk_no_pop(s, w, leaf_key, bitmap, height, fork, has_next) ==
    IF w.panicked \/ height > fork \/ (height = fork /\ has_next) THEN w
    ELSE LET parent_branch ==
                 get_branch(s, BranchKey(height, parent_path(leaf_key, height)))
             w1 == IF get_bit(bitmap, height) /\ is_some(parent_branch)
                   THEN [w EXCEPT !.proof =
                            Append(@, sibling_of(unwrap(parent_branch),
                                                 is_right(leaf_key, height)))]
                   ELSE w
         IN  sibling_walk_no_pop(s, w1, leaf_key, bitmap, height + 1, fork,
                                 has_next)

\* the heights height..=fork_height of one leaf of the sibling pass
RECURSIVE sibling_walk(_, _, _, _, _, _, _)
sibling_walk(s, w, leaf_key, bitmap, height, fork, has_next) ==
    IF w.panicked \/ height > fork \/ (height = fork /\ has_next) THEN w
    ELSE LET parent_key == parent_path(leaf_key, height)
             parent_branch == get_branch(s, BranchKey(height, parent_key))
             w1 == IF w.stack_top > 0
                      /\ w.stack_fork_height[w.stack_top - 1] = height
                   THEN [w EXCEPT !.stack_top = @ - 1]
                   ELSE IF get_bit(bitmap, height)
                        THEN IF is_some(parent_branch)
                             THEN LET sibling ==
                                        sibling_of(unwrap(parent_branch),
                                                   is_right(leaf_key, height))
                                  IN  IF ~is_zero(sibling)
                                      THEN [w EXCEPT !.proof = Append(@, sibling)]
                                      ELSE [w EXCEPT !.panicked = TRUE]
                             ELSE w
                        ELSE w
         IN  sibling_walk(s, w1, leaf_key, bitmap, height + 1, fork, has_next)

\* the sibling pass from keys[leaf_index] on (leaf_index counts from 1)
RECURSIVE sibling_pass(_, _, _, _, _)
sibling_pass(s, keys, leaves_bitmap, leaf_index, w) ==
    IF w.panicked \/ leaf_index > Len(keys) THEN w
    ELSE LET leaf_key == keys[leaf_index]
             has_next == leaf_index + 1 <= Len(keys)
             fork == IF has_next
                     THEN fork_height(leaf_key, keys[leaf_index + 1])
                     ELSE MaxHeight
             w1 == sibling_walk(s, w, leaf_key, leaves_bitmap[leaf_index],
                                0, fork, has_next)
             w2 == IF w1.panicked \/ ~(w1.stack_top < MAX_STACK_SIZE)
                   THEN [w1 EXCEPT !.panicked = TRUE]
                   ELSE [w1 EXCEPT !.stack_fork_height[w1.stack_top] = fork,
                                   !.stack_top = @ + 1]
         IN  sibling_pass(s, keys, leaves_bitmap, leaf_index + 1, w2)

\* merkle_proof without the test for no keys
merkle_proof_no_keys_test(s, keys) ==
    LET sorted == sort_unstable(keys)
        leaves_bitmap == collect_bitmaps(s, sorted)
        w == sibling_pass(s, sorted, leaves_bitmap, 1, NewWalk)
    IN  [status |-> IF w.panicked THEN "panic" ELSE "Ok",
         leaves_bitmap |-> leaves_bitmap,
         proof |-> w.proof,
         stack_top |-> w.stack_top]

merkle_proof(s, keys) ==
    IF keys = <<>>
    THEN [status |-> "EmptyKeys", leaves_bitmap |-> <<>>, proof |-> <<>>,
          stack_top |-> 0]
    ELSE LET sorted == sort_unstable(keys)
             leaves_bitmap == collect_bitmaps(s, sorted)
             w == sibling_pass(s, sorted, leaves_bitmap, 1, NewWalk)
         IN  [status |-> IF w.panicked THEN "panic" ELSE "Ok",
              leaves_bitmap |-> leaves_bitmap,
              proof |-> w.proof,
              stack_top |-> w.stack_top]

\* what get_branch(xid, ..) and get_leaf(xid, ..) read: the domain xid
store_view(s, xid) ==
    [root |-> map_get(s.root, xid),
     branches_map |-> [bk \in {x[2] : x \in {y \in DOMAIN s.branches_map : y[1] = xid}}
                          |-> s.branches_map[<<xid, bk>>]],
     leaves_map |-> [k \in {x[2] : x \in {y \in DOMAIN s.leaves_map : y[1] = xid}}
                        |-> s.leaves_map[<<xid, k>>]]]

\* SparseMerkleTree2::merkle_proof: the code of merkle_proof, every read of
\* the store made under xid
merkle_proof2(s, xid, keys) == merkle_proof(store_view(s, xid), keys)

(***************************************************************************)
(* MerkleProof::compute_root and verify (specification 4.7).               *)
(* leaves is a sequence of <<key, claim>>, claim being None or Some(v).    *)
(* The walk is the one of merkle_proof: a sibling is the node of the leaf  *)
(* before when that leaf forked at this height, the next entry of proof    *)
(* when the bitmap has the bit, and Zero otherwise.                        *)
(***************************************************************************)
leaf_node(leaf) ==
    IF is_some(leaf[2]) THEN from_h256(unwrap(leaf[2])) ELSE MV_Zero

\* current_node merged with sibling under the branch above key at height
merge_with_sibling(key, height, current_node, sibling) ==
    IF is_right(key, height)
    THEN merge(height, parent_path(key, height), sibling, current_node)
    ELSE merge(height, parent_path(key, height), current_node, sibling)

NewCompute == [status |-> "Ok", node |-> MV_Zero, stack |-> <<>>, proof_index |-> 1]

RECURSIVE compute_walk(_, _, _, _, _, _, _)
compute_walk(p, c, leaf_key, bitmap, height, fork, has_next) ==
    IF c.status # "Ok" \/ height > fork \/ (height = fork /\ has_next) THEN c
    ELSE LET covered == c.stack # <<>> /\ c.stack[Len(c.stack)][1] = height
             from_proof == ~covered /\ get_bit(bitmap, height)
             sibling == IF covered THEN c.stack[Len(c.stack)][2]
                        ELSE IF from_proof THEN p.proof[c.proof_index]
                        ELSE MV_Zero
             c1 == IF from_proof /\ c.proof_index > Len(p.proof)
                   THEN [c EXCEPT !.status = "CorruptedProof"]
                   ELSE [c EXCEPT
                            !.node = merge_with_sibling(leaf_key, height, @, sibling),
                            !.stack = IF covered THEN SubSeq(@, 1, Len(@) - 1) ELSE @,
                            !.proof_index = IF from_proof THEN @ + 1 ELSE @]
         IN  compute_walk(p, c1, leaf_key, bitmap, height + 1, fork, has_next)

RECURSIVE compute_pass(_, _, _, _)
compute_pass(p, leaves, leaf_index, c) ==
    IF c.status # "Ok" \/ leaf_index > Len(leaves) THEN c
    ELSE LET leaf_key == leaves[leaf_index][1]
             has_next == leaf_index + 1 <= Len(leaves)
             fork == IF has_next
                     THEN fork_height(leaf_key, leaves[leaf_index + 1][1])
                     ELSE MaxHeight
             c1 == compute_walk(p, [c EXCEPT !.node = leaf_node(leaves[leaf_index])],
                                leaf_key, p.leaves_bitmap[leaf_index], 0, fork,
                                has_next)
             c2 == IF c1.status # "Ok" THEN c1
                   ELSE [c1 EXCEPT !.stack = Append(@, <<fork, c1.node>>)]
         IN  compute_pass(p, leaves, leaf_index + 1, c2)

\* [status, root, expected, actual]: root is meant when status is "Ok",
\* expected and actual when it is "IncorrectNumberOfLeaves"
Computed(status, computed_root, expected, actual) ==
    [status |-> status, root |-> computed_root,
     expected |-> expected, actual |-> actual]

\* compute_root reporting the two counts the other way round
compute_root_counts_swapped(p, leaves) ==
    IF Len(leaves) # Len(p.leaves_bitmap)
    THEN Computed("IncorrectNumberOfLeaves", h256_zero,
                  Len(leaves), Len(p.leaves_bitmap))
    ELSE Computed("Ok", h256_zero, 0, 0)

compute_root(p, leaves) ==
    IF Len(leaves) # Len(p.leaves_bitmap)
    THEN Computed("IncorrectNumberOfLeaves", h256_zero,
                  Len(p.leaves_bitmap), Len(leaves))
    ELSE LET c == compute_pass(p, leaves, 1, NewCompute)
         IN  IF c.status # "Ok" THEN Computed(c.status, h256_zero, 0, 0)
             ELSE IF Len(c.stack) # 1
                  THEN Computed("NonMergableRange", h256_zero, 0, 0)
             ELSE IF c.proof_index # Len(p.proof) + 1
                  THEN Computed("CorruptedProof", h256_zero, 0, 0)
             ELSE Computed("Ok", hash(c.stack[1][2]), 0, 0)

\* [status, value]: value is the bool verify returns when status is "Ok"
verify(p, expected_root, leaves) ==
    LET r == compute_root(p, leaves)
    IN  [status |-> r.status,
         value |-> r.status = "Ok" /\ r.root = expected_root]

(***************************************************************************)
(* MerkleProof::compile and CompiledMerkleProof (specification 4.8).       *)
(* The program is a sequence of <<"L">> (push the next leaf),              *)
(* <<"P", h, sibling>> (merge the top with a sibling at h) and <<"H", h>>  *)
(* (merge the two entries on top at h).                                    *)
(***************************************************************************)
NewCompile == [status |-> "Ok", program |-> <<>>, stack |-> <<>>, proof_index |-> 1]

RECURSIVE compile_walk(_, _, _, _, _, _)
compile_walk(p, c, bitmap, height, fork, has_next) ==
    IF c.status # "Ok" \/ height > fork \/ (height = fork /\ has_next) THEN c
    ELSE LET covered == c.stack # <<>> /\ c.stack[Len(c.stack)] = height
             from_proof == ~covered /\ get_bit(bitmap, height)
             c1 == IF covered
                   THEN [c EXCEPT !.program = Append(@, <<"H", height>>),
                                  !.stack = SubSeq(@, 1, Len(@) - 1)]
                   ELSE IF from_proof
                        THEN IF c.proof_index > Len(p.proof)
                             THEN [c EXCEPT !.status = "CorruptedProof"]
                             ELSE [c EXCEPT
                                      !.program = Append(@, <<"P", height,
                                                     p.proof[c.proof_index]>>),
                                      !.proof_index = @ + 1]
                        ELSE [c EXCEPT !.program = Append(@, <<"P", height, MV_Zero>>)]
         IN  compile_walk(p, c1, bitmap, height + 1, fork, has_next)

RECURSIVE compile_pass(_, _, _, _)
compile_pass(p, keys, leaf_index, c) ==
    IF c.status # "Ok" \/ leaf_index > Len(keys) THEN c
    ELSE LET has_next == leaf_index + 1 <= Len(keys)
             fork == IF has_next
                     THEN fork_height(keys[leaf_index], keys[leaf_index + 1])
                     ELSE MaxHeight
             c1 == compile_walk(p, [c EXCEPT !.program = Append(@, <<"L">>)],
                                p.leaves_bitmap[leaf_index], 0, fork, has_next)
             c2 == IF c1.status # "Ok" THEN c1
                   ELSE [c1 EXCEPT !.stack = Append(@, fork)]
         IN  compile_pass(p, keys, leaf_index + 1, c2)

\* [status, program]
compile(p, leaves_keys) ==
    IF leaves_keys = <<>> THEN [status |-> "EmptyKeys", program |-> <<>>]
    ELSE IF Len(leaves_keys) # Len(p.leaves_bitmap)
    THEN [status |-> "IncorrectNumberOfLeaves", program |-> <<>>]
    ELSE LET c == compile_pass(p, sort_unstable(leaves_keys), 1, NewCompile)
         IN  IF c.status # "Ok" THEN [status |-> c.status, program |-> <<>>]
             ELSE IF Len(c.stack) # 1 \/ c.proof_index # Len(p.proof) + 1
                  THEN [status |-> "CorruptedProof", program |-> <<>>]
             ELSE [status |-> "Ok", program |-> c.program]

\* the stack machine: m is [status, stack, leaf_index], the stack a sequence
\* of <<key, node>>
NewMachine == [status |-> "Ok", stack |-> <<>>, leaf_index |-> 1]

push_leaf(m, leaves) ==
    IF m.leaf_index > Len(leaves) \/ Len(m.stack) >= MAX_STACK_SIZE
    THEN [m EXCEPT !.status = "CorruptedProof"]
    ELSE [m EXCEPT !.stack = Append(@, <<leaves[m.leaf_index][1],
                                         leaf_node(leaves[m.leaf_index])>>),
                   !.leaf_index = @ + 1]

\* push_proof_sibling putting the sibling on the right whatever the key
push_proof_sibling_right(m, height, sibling) ==
    IF m.stack = <<>> THEN [m EXCEPT !.status = "CorruptedProof"]
    ELSE LET top == m.stack[Len(m.stack)]
         IN  [m EXCEPT !.stack[Len(m.stack)] =
                 <<parent_path(top[1], height),
                   merge(height, parent_path(top[1], height), top[2], sibling)>>]

push_proof_sibling(m, height, sibling) ==
    IF m.stack = <<>> THEN [m EXCEPT !.status = "CorruptedProof"]
    ELSE LET top == m.stack[Len(m.stack)]
         IN  [m EXCEPT !.stack[Len(m.stack)] =
                 <<parent_path(top[1], height),
                   merge_with_sibling(top[1], height, top[2], sibling)>>]

\* the two entries on top must lie under one branch at height
merge_top(m, height) ==
    IF Len(m.stack) < 2 THEN [m EXCEPT !.status = "CorruptedProof"]
    ELSE LET a == m.stack[Len(m.stack) - 1]
             b == m.stack[Len(m.stack)]
         IN  IF parent_path(a[1], height) # parent_path(b[1], height)
             THEN [m EXCEPT !.status = "NonMergableRange"]
             ELSE [m EXCEPT !.stack =
                      Append(SubSeq(@, 1, Len(@) - 2),
                             <<parent_path(a[1], height),
                               merge_with_sibling(a[1], height, a[2], b[2])>>)]

RECURSIVE run_program(_, _, _, _)
run_program(program, pc, leaves, m) ==
    IF m.status # "Ok" \/ pc > Len(program) THEN m
    ELSE LET op == program[pc]
             m1 == IF op[1] = "L" THEN push_leaf(m, leaves)
                   ELSE IF op[1] = "P" THEN push_proof_sibling(m, op[2], op[3])
                   ELSE merge_top(m, op[2])
         IN  run_program(program, pc + 1, leaves, m1)

compiled_compute_root(program, leaves) ==
    LET m == run_program(program, 1, leaves, NewMachine)
    IN  IF m.status # "Ok" THEN Computed(m.status, h256_zero, 0, 0)
        ELSE IF Len(m.stack) # 1 \/ m.leaf_index # Len(leaves) + 1
             THEN Computed("CorruptedProof", h256_zero, 0, 0)
        ELSE Computed("Ok", hash(m.stack[1][2]), 0, 0)

compiled_verify(program, expected_root, leaves) ==
    LET r == compiled_compute_root(program, leaves)
    IN  [status |-> r.status,
         value |-> r.status = "Ok" /\ r.root = expected_root]

(***************************************************************************)
(* SpecProofOne: one SparseMerkleTree driven by update and remove, and     *)
(* merkle_proof called for one key.  proof_out is the last merkle_proof    *)
(* call (its keys and its result) while the tree is the one it was made    *)
(* from, and None once the tree was written again.                         *)
(***************************************************************************)
UpdateLeaf(key, value) ==
    /\ store' = update(store, key, value)
    /\ proof_out' = None
    /\ UNCHANGED <<last, noted, hist, store2, last2, written>>

RemoveLeaf(key) ==
    /\ store' = remove(store, key)
    /\ proof_out' = None
    /\ UNCHANGED <<last, noted, hist, store2, last2, written>>

Prove(keys) ==
    /\ proof_out' = Some([keys |-> keys, res |-> merkle_proof(store, keys)])
    /\ UNCHANGED <<store, last, noted, hist, store2, last2, written>>

NextProofOne ==
    \/ \E key \in Keys, value \in Values : UpdateLeaf(key, value)
    \/ \E key \in Keys : RemoveLeaf(key)
    \/ \E key \in AllKeys : Prove(<<key>>)

SpecProofOne == Init /\ [][NextProofOne]_vars

proved == unwrap(proof_out)
proved_one == is_some(proof_out) /\ Len(proved.keys) = 1
the_proof == MerkleProof(proved.res.leaves_bitmap, proved.res.proof)

(***************************************************************************)
(* C5.  For a key k that holds a leaf with value v, merkle_proof([k])      *)
(* returns a proof, and compute_root on it with the leaf (k, Some(v))      *)
(* gives root(): verify against the current root returns true.             *)
(***************************************************************************)
C5_StoredLeafProofVerifies ==
    (proved_one /\ has_leaf(store, proved.keys[1])) =>
        LET k == proved.keys[1]
            leaves == <<<<k, Some(store.leaves_map[k])>>>>
        IN  /\ proved.res.status = "Ok"
            /\ compute_root(the_proof, leaves) = Computed("Ok", root(store), 0, 0)
            /\ verify(the_proof, root(store), leaves) = [status |-> "Ok", value |-> TRUE]

C5_Witness ==
    /\ proved_one
    /\ has_leaf(store, proved.keys[1])
    /\ Cardinality(DOMAIN store.leaves_map) >= 3
    /\ Len(proved.res.proof) >= 2
    /\ compute_root(the_proof,
                    <<<<proved.keys[1], Some(store.leaves_map[proved.keys[1]])>>>>).root
           = root(store)

(***************************************************************************)
(* C6.  For a key k that holds no leaf, the empty tree included,           *)
(* merkle_proof([k]) returns a proof, and compute_root on it with the leaf *)
(* claimed absent, (k, None) or just as well (k, Some(zero)), gives        *)
(* root().                                                                 *)
(***************************************************************************)
C6_AbsentLeafProofVerifies ==
    (proved_one /\ ~has_leaf(store, proved.keys[1])) =>
        LET k == proved.keys[1]
        IN  /\ proved.res.status = "Ok"
            /\ \A claim \in {None, Some(h256_zero)} :
                  /\ compute_root(the_proof, <<<<k, claim>>>>)
                        = Computed("Ok", root(store), 0, 0)
                  /\ verify(the_proof, root(store), <<<<k, claim>>>>)
                        = [status |-> "Ok", value |-> TRUE]

C6_Witness ==
    /\ proved_one
    /\ ~has_leaf(store, proved.keys[1])
    /\ Cardinality(DOMAIN store.leaves_map) >= 2
    /\ Len(proved.res.proof) >= 2
    /\ compute_root(the_proof, <<<<proved.keys[1], None>>>>).root = root(store)

(***************************************************************************)
(* SpecProof: as SpecProofOne, with merkle_proof called for any key, and   *)
(* for lists of up to MaxProofKeys of the keys in use, in any order and    *)
(* with repetitions.                                                       *)
(***************************************************************************)
ProofKeyLists ==
    {<<k>> : k \in AllKeys} \cup UNION {[1..n -> Keys] : n \in 0..MaxProofKeys}

NextProof ==
    \/ \E key \in Keys, value \in Values : UpdateLeaf(key, value)
    \/ \E key \in Keys : RemoveLeaf(key)
    \/ \E keys \in ProofKeyLists : Prove(keys)

SpecProof == Init /\ [][NextProof]_vars

\* what a caller may claim of a key: absence, or a value
ClaimValues == {None} \cup {Some(v) : v \in Values}
claimed_h256(claim) == IF is_some(claim) THEN unwrap(claim) ELSE h256_zero

\* the value the tree holds for key, zero when it holds none
tree_value(s, key) ==
    IF is_some(get(s, key)) THEN to_h256(unwrap(get(s, key))) ELSE h256_zero

distinct(keys) == \A i, j \in 1..Len(keys) : i # j => keys[i] # keys[j]

\* the claimed leaves that carry the keys of keys, in ascending order
Claims(keys) ==
    LET sorted == sort_unstable(keys)
    IN  {[i \in 1..Len(keys) |-> <<sorted[i], c[i]>>] :
            c \in [1..Len(keys) -> ClaimValues]}

\* any claimed leaves: up to MaxProofKeys leaves over the keys in use
AnyClaims ==
    UNION {[1..n -> {<<k, c>> : k \in Keys, c \in ClaimValues}] :
              n \in 0..MaxProofKeys}

the_compiled == compile(the_proof, proved.keys)

\* verify returned Ok(true)
accepts(p, expected_root, leaves) ==
    LET r == verify(p, expected_root, leaves)
    IN  r.status = "Ok" /\ r.value

\* compile returned a program and its verify returned Ok(true)
compiled_accepts(c, expected_root, leaves) ==
    /\ c.status = "Ok"
    /\ LET r == compiled_verify(c.program, expected_root, leaves)
       IN  r.status = "Ok" /\ r.value

\* b is a with the claimed value of one leaf changed to another value
one_value_changed(a, b) ==
    \E i \in 1..Len(a) :
        /\ claimed_h256(a[i][2]) # claimed_h256(b[i][2])
        /\ \A j \in 1..Len(a) : j # i => a[j] = b[j]

Roots == {root(store), h256_zero, Digest(0, 0, <<1>>, h256_zero)}

C8_CompiledEqualsPlainAnyLeaves ==
    (is_some(proof_out) /\ proved.res.status = "Ok") =>
        \A expected_root \in Roots, leaves \in AnyClaims :
            compiled_accepts(the_compiled, expected_root, leaves)
                = accepts(the_proof, expected_root, leaves)

\* C8 (amended): for distinct keys, every root and every list of claimed
\* leaves that carries the keys the proof was made and compiled for, in
\* ascending order, compile returns a program and the compiled proof's verify
\* accepts exactly when verify accepts.
C8_CompiledEqualsPlainSameKeys ==
    (is_some(proof_out) /\ proved.res.status = "Ok" /\ distinct(proved.keys)) =>
        /\ the_compiled.status = "Ok"
        /\ \A expected_root \in Roots, leaves \in Claims(proved.keys) :
              compiled_accepts(the_compiled, expected_root, leaves)
                  = accepts(the_proof, expected_root, leaves)

C8_Witness ==
    /\ is_some(proof_out)
    /\ Len(proved.keys) = 2
    /\ proved.keys[1] > proved.keys[2]
    /\ Len(proved.res.proof) >= 1
    /\ \E k \in DOMAIN the_compiled.program : the_compiled.program[k][1] = "H"
    /\ \E a, b \in Claims(proved.keys) :
          /\ accepts(the_proof, root(store), a)
          /\ compiled_accepts(the_compiled, root(store), a)
          /\ ~accepts(the_proof, root(store), b)
          /\ ~compiled_accepts(the_compiled, root(store), b)

(***************************************************************************)
(* Spec2: one SparseMerkleTree2 over DefaultStore2, driven by update,      *)
(* remove, update_all, remove_all and remove_x under the xids 0..MaxXid.   *)
(* last2 is the last call: its name, its xid, whether it panicked, and for *)
(* remove_x the number of leaves the domain held before it.                *)
(***************************************************************************)
Xids == 0..MaxXid
Keys2 == (0..(LowKeys2 - 1)) \cup {2^KeyBits - 1}
Pairs2 == {<<k, v>> : k \in Keys2, v \in Values}
Batches2 == UNION {[1..n -> Pairs2] : n \in 0..MaxBatch}
KeyLists2 == UNION {[1..n -> {<<k>> : k \in Keys2}] : n \in 0..MaxBatch}

\* what the store holds under xid
root_under(s, xid) == map_get(s.root, xid)
leaves_under(s, xid) ==
    {<<x[2], s.leaves_map[x]>> : x \in {y \in DOMAIN s.leaves_map : y[1] = xid}}
branches_under(s, xid) ==
    {<<x[2], s.branches_map[x]>> : x \in {y \in DOMAIN s.branches_map : y[1] = xid}}

Update2(xid, key, value) ==
    /\ store2' = update2(store2, xid, key, value)
    /\ last2' = [NoCall2 EXCEPT !.op = "update", !.xid = xid]
    /\ UNCHANGED <<store, last, noted, hist, proof_out, written>>

Remove2(xid, key) ==
    /\ store2' = remove2(store2, xid, key)
    /\ last2' = [NoCall2 EXCEPT !.op = "remove", !.xid = xid]
    /\ UNCHANGED <<store, last, noted, hist, proof_out, written>>

UpdateAll2(xid, batch) ==
    /\ LET r == update_all2(store2, xid, batch)
       IN  /\ store2' = r.store
           /\ last2' = [NoCall2 EXCEPT !.op = "update_all", !.xid = xid,
                                       !.panicked = r.panicked]
    /\ UNCHANGED <<store, last, noted, hist, proof_out, written>>

RemoveAll2(xid, keys) ==
    /\ LET r == remove_all2(store2, xid, keys)
       IN  /\ store2' = r.store
           /\ last2' = [NoCall2 EXCEPT !.op = "remove_all", !.xid = xid,
                                       !.panicked = r.panicked]
    /\ UNCHANGED <<store, last, noted, hist, proof_out, written>>

RemoveX(xid) ==
    /\ store2' = remove_x(store2, xid)
    /\ last2' = [NoCall2 EXCEPT !.op = "remove_x", !.xid = xid,
                                !.held = Cardinality(leaves_under(store2, xid))]
    /\ UNCHANGED <<store, last, noted, hist, proof_out, written>>

Next2 ==
    \/ \E xid \in Xids, key \in Keys2, value \in Values : Update2(xid, key, value)
    \/ \E xid \in Xids, key \in Keys2 : Remove2(xid, key)
    \/ \E xid \in Xids, batch \in Batches2 : UpdateAll2(xid, batch)
    \/ \E xid \in Xids, keys \in KeyLists2 : RemoveAll2(xid, keys)
    \/ \E xid \in Xids : RemoveX(xid)

Spec2 == Init /\ [][Next2]_vars

(***************************************************************************)
(* C9.  A call of update, remove, update_all, remove_all or remove_x under *)
(* xid_a leaves root(xid_b), the root cell, the leaves and the branches    *)
(* under xid_b as they were, for every xid_b other than xid_a.             *)
(***************************************************************************)
C9_OtherDomainsUnchanged ==
    [][\A xid_b \in Xids \ {last2'.xid} :
          /\ root2(store2', xid_b) = root2(store2, xid_b)
          /\ root_under(store2', xid_b) = root_under(store2, xid_b)
          /\ leaves_under(store2', xid_b) = leaves_under(store2, xid_b)
          /\ branches_under(store2', xid_b) = branches_under(store2, xid_b)]_vars

\* remove_x has emptied one domain and another still holds its tree
C9_Witness ==
    /\ last2.op = "remove_x"
    /\ last2.held >= 2
    /\ \E xid_b \in Xids \ {last2.xid} :
          /\ Cardinality(leaves_under(store2, xid_b)) >= 2
          /\ branches_under(store2, xid_b) # {}
          /\ ~h256_is_zero(root2(store2, xid_b))
    /\ h256_is_zero(root2(store2, last2.xid))

(***************************************************************************)
(* C10.  After remove_x(xid) the domain xid is an empty tree: root(xid) is *)
(* zero, get(xid, k) is None for every k, no root cell, leaf or branch is  *)
(* left under xid, and updates under xid from here give the roots they     *)
(* give on a tree that was just created.                                   *)
(***************************************************************************)
RECURSIVE update_each2(_, _, _)
update_each2(s, xid, pairs) ==
    IF pairs = <<>> THEN s
    ELSE LET s1 == update2(s, xid, Head(pairs)[1], Head(pairs)[2])
         IN  IF DOMAIN s1.root # {} THEN update_each2(s1, xid, Tail(pairs)) ELSE s1

C10_RemoveXLeavesEmptyTree ==
    last2.op = "remove_x" =>
        LET xid == last2.xid
        IN  /\ h256_is_zero(root2(store2, xid))
            /\ \A k \in AllKeys : get2(store2, xid, k) = None
            /\ root_under(store2, xid) = None
            /\ leaves_under(store2, xid) = {}
            /\ branches_under(store2, xid) = {}
            /\ \A pairs \in Batches2 :
                  root2(update_each2(store2, xid, pairs), xid)
                      = root2(update_each2(DefaultStore2, xid, pairs), xid)

\* remove_x has emptied a domain that held a tree
C10_Witness ==
    /\ last2.op = "remove_x"
    /\ last2.held >= 2
    /\ h256_is_zero(root2(store2, last2.xid))
    /\ leaves_under(store2, last2.xid) = {}
    /\ \E xid_b \in Xids \ {last2.xid} : leaves_under(store2, xid_b) # {}

(***************************************************************************)
(* SpecGet: one tree driven by update, remove, update_all and remove_all;  *)
(* written[k] is the H256 of the value that the most recent call that      *)
(* wrote k wrote (zero for a removal), for the keys written so far.        *)
(***************************************************************************)
\* the pairs of a batch written in the caller's order: the last one stays
RECURSIVE write_each(_, _)
write_each(w, pairs) ==
    IF pairs = <<>> THEN w
    ELSE write_each(map_insert(w, Head(pairs)[1], to_h256(Head(pairs)[2])),
                    Tail(pairs))

RECURSIVE zero_each(_, _)
zero_each(w, keys) ==
    IF keys = <<>> THEN w
    ELSE zero_each(map_insert(w, Head(keys)[1], h256_zero), Tail(keys))

UpdateGet(key, value) ==
    /\ store' = update(store, key, value)
    /\ written' = map_insert(written, key, to_h256(value))
    /\ last' = [NoCall EXCEPT !.op = "update", !.key = key]
    /\ UNCHANGED <<noted, hist, proof_out, store2, last2>>

RemoveGet(key) ==
    /\ store' = remove(store, key)
    /\ written' = map_insert(written, key, h256_zero)
    /\ last' = [NoCall EXCEPT !.op = "remove", !.key = key]
    /\ UNCHANGED <<noted, hist, proof_out, store2, last2>>

UpdateAllGet(batch) ==
    /\ LET r == update_all(store, batch)
       IN  /\ store' = r.store
           /\ written' = IF r.panicked THEN written
                         ELSE write_each(written, batch)
           /\ last' = [NoCall EXCEPT !.op = "update_all",
                                     !.panicked = r.panicked]
    /\ UNCHANGED <<noted, hist, proof_out, store2, last2>>

RemoveAllGet(keys) ==
    /\ LET r == remove_all(store, keys)
       IN  /\ store' = r.store
           /\ written' = IF r.panicked THEN written
                         ELSE zero_each(written, keys)
           /\ last' = [NoCall EXCEPT !.op = "remove_all",
                                     !.panicked = r.panicked]
    /\ UNCHANGED <<noted, hist, proof_out, store2, last2>>

NextGet ==
    \/ \E key \in Keys, value \in Values : UpdateGet(key, value)
    \/ \E key \in Keys : RemoveGet(key)
    \/ \E batch \in Batches : UpdateAllGet(batch)
    \/ \E keys \in KeyLists : RemoveAllGet(keys)

SpecGet == Init /\ [][NextGet]_vars

RemoveXFails(xid, fail_at) ==
    /\ ~last2.err
    /\ LET r == remove_x_failing(store2, xid, fail_at)
       IN  /\ store2' = r.store
           /\ last2' = [NoCall2 EXCEPT
                           !.op = "remove_x", !.xid = xid, !.err = r.err,
                           !.held = Cardinality(leaves_under(store2, xid)),
                           !.pre = Some(store2)]
    /\ UNCHANGED <<store, last, noted, hist, proof_out, written>>

Next2Fail ==
    \/ ~last2.err /\ Next2
    \/ \E xid \in Xids, fail_at \in 1..3 : RemoveXFails(xid, fail_at)

Spec2Fail == Init /\ [][Next2Fail]_vars

nothing_under(s, xid) ==
    /\ root_under(s, xid) = None
    /\ leaves_under(s, xid) = {}
    /\ branches_under(s, xid) = {}

same_under(s, t, xid) ==
    /\ root_under(s, xid) = root_under(t, xid)
    /\ leaves_under(s, xid) = leaves_under(t, xid)
    /\ branches_under(s, xid) = branches_under(t, xid)

(***************************************************************************)
(* C12.  remove_x(xid) is atomic: when it has returned, with Ok or with a  *)
(* Store error, either the root cell, every branch and every leaf under    *)
(* xid are removed, or none of them is.                                    *)
(***************************************************************************)
C12_RemoveXAllOrNothing ==
    last2.op = "remove_x" =>
        \/ nothing_under(store2, last2.xid)
        \/ is_some(last2.pre) /\ same_under(store2, unwrap(last2.pre), last2.xid)

\* what holds of the code: Ok leaves nothing under xid, and an error leaves
\* what the removals after the failing one would have removed
C12_RemoveXRemovesUpToTheFailure ==
    last2.op = "remove_x" =>
        IF ~last2.err THEN nothing_under(store2, last2.xid)
        ELSE leaves_under(store2, last2.xid)
                 = leaves_under(unwrap(last2.pre), last2.xid)

(***************************************************************************)
(* SpecFail: a tree built by update and remove, and then one call of       *)
(* update, remove, update_all or remove_all over a store whose write       *)
(* number fail_at fails.  last holds the call, its arguments in args, the  *)
(* store before it in pre, and err.                                        *)
(***************************************************************************)
\* the most writes one call makes: the leaves, a branch per node and
\* height, and the root
MaxWrites == MaxBatch * (KeyBits + 1) + 1

UpdateFails(key, value, fail_at) ==
    /\ ~last.err
    /\ LET r == update_failing(store, key, value, fail_at)
       IN  /\ r.err
           /\ store' = r.store
    /\ last' = [NoCall EXCEPT !.op = "update", !.err = TRUE,
                              !.fail_at = fail_at, !.args = <<key, value>>,
                              !.pre = Some(store)]
    /\ UNCHANGED <<noted, hist, proof_out, store2, last2, written>>

RemoveFails(key, fail_at) ==
    /\ ~last.err
    /\ LET r == remove_failing(store, key, fail_at)
       IN  /\ r.err
           /\ store' = r.store
    /\ last' = [NoCall EXCEPT !.op = "remove", !.err = TRUE,
                              !.fail_at = fail_at, !.args = <<key>>,
                              !.pre = Some(store)]
    /\ UNCHANGED <<noted, hist, proof_out, store2, last2, written>>

UpdateAllFails(batch, fail_at) ==
    /\ ~last.err
    /\ LET r == update_all_failing(store, batch, fail_at)
       IN  /\ r.err
           /\ store' = r.store
    /\ last' = [NoCall EXCEPT !.op = "update_all", !.err = TRUE,
                              !.fail_at = fail_at, !.args = batch,
                              !.pre = Some(store)]
    /\ UNCHANGED <<noted, hist, proof_out, store2, last2, written>>

RemoveAllFails(keys, fail_at) ==
    /\ ~last.err
    /\ LET r == remove_all_failing(store, keys, fail_at)
       IN  /\ r.err
           /\ store' = r.store
    /\ last' = [NoCall EXCEPT !.op = "remove_all", !.err = TRUE,
                              !.fail_at = fail_at, !.args = keys,
                              !.pre = Some(store)]
    /\ UNCHANGED <<noted, hist, proof_out, store2, last2, written>>

NextFail ==
    \/ \E key \in Keys, value \in Values : ~last.err /\ UpdateLeaf(key, value)
    \/ \E key \in Keys : ~last.err /\ RemoveLeaf(key)
    \/ \E key \in Keys, value \in Values, fail_at \in 1..MaxWrites :
          UpdateFails(key, value, fail_at)
    \/ \E key \in Keys, fail_at \in 1..MaxWrites : RemoveFails(key, fail_at)
    \/ \E batch \in Batches, fail_at \in 1..MaxWrites :
          UpdateAllFails(batch, fail_at)
    \/ \E keys \in KeyLists, fail_at \in 1..MaxWrites :
          RemoveAllFails(keys, fail_at)

SpecFail == Init /\ [][NextFail]_vars

\* the store the call last left when its write number fail_at failed
failed_at(fail_at) ==
    LET pre == unwrap(last.pre)
    IN  CASE last.op = "update" ->
                 update_failing(pre, last.args[1], last.args[2], fail_at).store
          [] last.op = "remove" -> remove_failing(pre, last.args[1], fail_at).store
          [] last.op = "update_all" ->
                 update_all_failing(pre, last.args, fail_at).store
          [] last.op = "remove_all" ->
                 remove_all_failing(pre, last.args, fail_at).store

\* the leaves and branches on which the stores s and t differ
entries_changed(s, t) ==
    {<<"leaf", k>> : k \in {x \in DOMAIN s.leaves_map \cup DOMAIN t.leaves_map :
                              map_get(s.leaves_map, x) # map_get(t.leaves_map, x)}}
    \cup
    {<<"branch", k>> : k \in {x \in DOMAIN s.branches_map \cup DOMAIN t.branches_map :
                              map_get(s.branches_map, x) # map_get(t.branches_map, x)}}

entry(s, e) ==
    IF e[1] = "leaf" THEN map_get(s.leaves_map, e[2])
    ELSE map_get(s.branches_map, e[2])

C14_EmptyKeysExactlyForNoKeys ==
    [][is_some(proof_out') =>
          /\ store' = store
          /\ (unwrap(proof_out').res.status = "EmptyKeys")
                 = (unwrap(proof_out').keys = <<>>)
          /\ \A xid \in Xids :
                (merkle_proof2(store2', xid, unwrap(proof_out').keys).status
                     = "EmptyKeys") = (unwrap(proof_out').keys = <<>>)]_vars

\* merkle_proof was called with no keys on a tree that holds leaves
C14_Witness ==
    /\ is_some(proof_out)
    /\ proved.keys = <<>>
    /\ proved.res.status = "EmptyKeys"
    /\ Cardinality(DOMAIN store.leaves_map) >= 2

\* claimed leaves over the keys of keys, up to MaxProofKeys - 1 of them
FewerClaims(keys) ==
    UNION {[1..n -> {<<keys[i], c>> : i \in 1..Len(keys), c \in ClaimValues}] :
              n \in 0..(MaxProofKeys - 1)}

(***************************************************************************)
(* C15.  compute_root and verify, given a number of leaves that is not the *)
(* number of bitmaps of the proof, fail with IncorrectNumberOfLeaves,      *)
(* expected being the number of bitmaps and actual the number of leaves,   *)
(* and compute no root; the empty proof given one leaf reports expected 0  *)
(* and actual 1.                                                           *)
(***************************************************************************)
C15_WrongNumberOfLeaves ==
    /\ (is_some(proof_out) /\ proved.res.status = "Ok") =>
          \A leaves \in FewerClaims(proved.keys) :
              Len(leaves) # Len(proved.keys) =>
                  LET r == compute_root(the_proof, leaves)
                      v == verify(the_proof, root(store), leaves)
                  IN  /\ r.status = "IncorrectNumberOfLeaves"
                      /\ r.expected = Len(proved.keys)
                      /\ r.actual = Len(leaves)
                      /\ v.status = "IncorrectNumberOfLeaves"
                      /\ ~v.value
    /\ \A k \in AllKeys, claim \in ClaimValues :
          LET r == compute_root(MerkleProof(<<>>, <<>>), <<<<k, claim>>>>)
          IN  /\ r.status = "IncorrectNumberOfLeaves"
              /\ r.expected = 0
              /\ r.actual = 1

\* a proof of two keys that verifies with its two leaves, given one of them
C15_Witness ==
    /\ is_some(proof_out)
    /\ proved.res.status = "Ok"
    /\ Len(proved.res.leaves_bitmap) = 2
    /\ \E leaves \in Claims(proved.keys) :
          /\ accepts(the_proof, root(store), leaves)
          /\ compute_root(the_proof, <<leaves[1]>>).status
                 = "IncorrectNumberOfLeaves"
          /\ compute_root(the_proof, <<leaves[1]>>).expected = 2
          /\ compute_root(the_proof, <<leaves[1]>>).actual = 1
    /\ ~h256_is_zero(root(store))

(***************************************************************************)
(* C16.  In every state reached by calls of update, remove, update_all and *)
(* remove_all that returned, no branch in the store has two Zero children: *)
(* a branch whose children both become Zero is removed, not stored.        *)
(***************************************************************************)
C16_NoStoredBranchIsEmpty ==
    \A branch_key \in DOMAIN store.branches_map :
        ~(/\ is_zero(store.branches_map[branch_key].left)
          /\ is_zero(store.branches_map[branch_key].right))

\* remove has taken a leaf out, and with it the branch above it, from a tree
\* that still holds branches
C16_Witness ==
    /\ last.op = "remove"
    /\ ~last.noop
    /\ BranchKey(0, parent_path(last.key, 0)) \notin DOMAIN store.branches_map
    /\ store.branches_map # EmptyMap

(***************************************************************************)
(* C17.  The branch keys in the store are exactly the pairs                *)
(* (h, parent_path(k, h)) for a stored leaf k and a height h: every stored *)
(* leaf has a branch at every height of its path, whose child on the side  *)
(* of k is not Zero, and no branch is on the path of no stored leaf.       *)
(***************************************************************************)
C17_BranchesAreThePathsOfTheLeaves ==
    /\ DOMAIN store.branches_map =
           {BranchKey(h, parent_path(k, h)) :
               k \in DOMAIN store.leaves_map, h \in Heights}
    /\ \A k \in DOMAIN store.leaves_map, h \in Heights :
          LET branch == get_branch(store, BranchKey(h, parent_path(k, h)))
          IN  /\ is_some(branch)
              /\ ~is_zero(IF is_right(k, h) THEN unwrap(branch).right
                          ELSE unwrap(branch).left)

\* a batch has left two leaves that share every branch of their paths, and
\* key 2, which holds no leaf, has no branch at height 0
C17_Witness ==
    /\ last.op \in {"update_all", "remove_all"}
    /\ ~last.panicked
    /\ {0, 1} \subseteq DOMAIN store.leaves_map
    /\ 2 \notin DOMAIN store.leaves_map
    /\ BranchKey(0, parent_path(2, 0)) \notin DOMAIN store.branches_map
    /\ Cardinality(DOMAIN store.branches_map) = KeyBits

(***************************************************************************)
(* C18.  The stored root is the hash of the merges worked out from the     *)
(* stored leaves alone, level by level up to the top height, and each      *)
(* child of a stored branch is the merge of the level below on its side:   *)
(* the leaf's value at height 0, Zero where nothing is below.              *)
(***************************************************************************)
\* the node that covers the keys sharing the bits height.. of key, worked
\* out from the leaves: a leaf at height 0, else the merge of its halves
RECURSIVE subtree_node(_, _, _)
subtree_node(s, height, key) ==
    IF height = 0
    THEN IF key \in DOMAIN s.leaves_map
         THEN from_h256(to_h256(s.leaves_map[key]))
         ELSE MV_Zero
    ELSE merge(height - 1, parent_path(key, height - 1),
               subtree_node(s, height - 1, clear_bit(key, height - 1)),
               subtree_node(s, height - 1, set_bit(key, height - 1)))

C18_RootAndBranchesAreTheMergesOfTheLeaves ==
    /\ root(store) = hash(subtree_node(store, KeyBits, 0))
    /\ \A branch_key \in DOMAIN store.branches_map :
          LET height == branch_key[1]
              node_key == branch_key[2]
              branch == store.branches_map[branch_key]
          IN  /\ branch.left = subtree_node(store, height,
                                            clear_bit(node_key, height))
              /\ branch.right = subtree_node(store, height,
                                             set_bit(node_key, height))

\* a batch has written two neighbouring leaves into a tree with a third
C18_Witness ==
    /\ last.op = "update_all"
    /\ ~last.panicked
    /\ {0, 1, 2^KeyBits - 1} \subseteq DOMAIN store.leaves_map
    /\ root(store) = hash(subtree_node(store, KeyBits, 0))
    /\ ~h256_is_zero(root(store))

(***************************************************************************)
(* C19.  update_all and remove_all end the passes over the heights with    *)
(* exactly one node for every batch, so that the assertion                 *)
(* nodes.len() == 1 holds and nodes[0] exists; the hash of that node is    *)
(* stored as the root and returned.                                        *)
(***************************************************************************)
C19_BatchEndsWithOneNode ==
    last.op \in {"update_all", "remove_all"} =>
        /\ ~last.panicked
        /\ store.root = Some(hash(subtree_node(store, KeyBits, 0)))

(***************************************************************************)
(* C20.  merkle_proof ends its sibling walk with stack_top = 1 for every   *)
(* key list that is not empty, a list with repeated keys included, and     *)
(* returns one bitmap per key given, in the order of the sorted keys.      *)
(***************************************************************************)
C20_WalkEndsWithOneEntry ==
    (is_some(proof_out) /\ proved.keys # <<>>) =>
        /\ proved.res.status = "Ok"
        /\ proved.res.stack_top = 1
        /\ Len(proved.res.leaves_bitmap) = Len(proved.keys)
        /\ \A i \in 1..Len(proved.keys) :
              proved.res.leaves_bitmap[i] =
                  merkle_proof(store, <<sort_unstable(proved.keys)[i]>>).leaves_bitmap[1]

\* what holds of the code: the walk of keys of which none is repeated ends
\* with stack_top = 1, and every walk returns the bitmaps of the sorted keys
C20_WalkOfDistinctKeysEndsWithOneEntry ==
    (is_some(proof_out) /\ proved.keys # <<>>) =>
        /\ proved.res.status = "Ok"
        /\ distinct(proved.keys) => proved.res.stack_top = 1
        /\ Len(proved.res.leaves_bitmap) = Len(proved.keys)
        /\ \A i \in 1..Len(proved.keys) :
              proved.res.leaves_bitmap[i] =
                  merkle_proof(store, <<sort_unstable(proved.keys)[i]>>).leaves_bitmap[1]

(***************************************************************************)
(* SpecStack: a tree whose leaves sit on the keys of test_max_stack_size,  *)
(* the key that goes right down to height h and left below it, for every   *)
(* h (so that a leaf forks from the others at every height), and           *)
(* merkle_proof called with any of these keys, each once, or with one key  *)
(* given up to MAX_STACK_SIZE + 2 times.                                   *)
(***************************************************************************)
\* gen_h256(height): the bits height.. set; the most left key for KeyBits
StairKeys == {2^KeyBits - 2^height : height \in 0..KeyBits}

\* the elements of a set of keys, the highest first
RECURSIVE descending(_)
descending(S) ==
    IF S = {} THEN <<>>
    ELSE LET m == CHOOSE x \in S : \A y \in S : y <= x
         IN  <<m>> \o descending(S \ {m})

StackKeyLists ==
    {descending(S) : S \in SUBSET StairKeys \ {{}}}
    \cup {[i \in 1..n |-> k] : k \in StairKeys, n \in 1..(MAX_STACK_SIZE + 2)}

NextStack ==
    \/ \E key \in StairKeys, value \in Values : UpdateLeaf(key, value)
    \/ \E key \in StairKeys : RemoveLeaf(key)
    \/ \E keys \in StackKeyLists : Prove(keys)

SpecStack == Init /\ [][NextStack]_vars

(***************************************************************************)
(* C21.  In merkle_proof, for every key list that is not empty,            *)
(* stack_top < MAX_STACK_SIZE holds before every push: the stack of fork   *)
(* heights is never indexed beyond its MAX_STACK_SIZE slots.               *)
(***************************************************************************)
C21_StackNeverOverrun ==
    (is_some(proof_out) /\ proved.keys # <<>>) =>
        /\ proved.res.status = "Ok"
        /\ proved.res.stack_top < MAX_STACK_SIZE + 1

\* what holds of the code: for keys of which none is repeated the stack
\* holds at most one entry per height, also with a leaf forking at every
\* height, and ends with one entry
C21_StackOfDistinctKeysNeverOverrun ==
    (is_some(proof_out) /\ proved.keys # <<>> /\ distinct(proved.keys)) =>
        /\ proved.res.status = "Ok"
        /\ proved.res.stack_top = 1

(***************************************************************************)
(* C22.  In merkle_proof, bit h of the bitmap of a key is set exactly when *)
(* the branch at (h, parent_path(key, h)) is in the store and its child    *)
(* opposite to the key is not Zero, which is when a stored leaf lies below *)
(* that child; so the sibling pass finds the branch and a sibling that is  *)
(* not Zero at every set bit it reads, and never runs unreachable!().      *)
(***************************************************************************)
C22_BitmapBitMeansStoredSibling ==
    (is_some(proof_out) /\ proved.keys # <<>>) =>
        /\ proved.res.status # "panic"
        /\ \A i \in 1..Len(proved.keys), h \in Heights :
              LET key == sort_unstable(proved.keys)[i]
                  branch_key == BranchKey(h, parent_path(key, h))
                  stored == branch_key \in DOMAIN store.branches_map
                  opposite == IF get_bit(key, h)
                              THEN store.branches_map[branch_key].left
                              ELSE store.branches_map[branch_key].right
              IN  /\ get_bit(proved.res.leaves_bitmap[i], h)
                         = (stored /\ ~is_zero(opposite))
                  /\ get_bit(proved.res.leaves_bitmap[i], h)
                         = (\E k \in DOMAIN store.leaves_map :
                               /\ parent_path(k, h) = parent_path(key, h)
                               /\ get_bit(k, h) # get_bit(key, h))

\* the proof of a key without a leaf whose bitmap has a bit set, and for
\* which the sibling pass has read a sibling from the store
C22_Witness ==
    /\ proved_one
    /\ ~has_leaf(store, proved.keys[1])
    /\ proved.res.status = "Ok"
    /\ \E h \in Heights : get_bit(proved.res.leaves_bitmap[1], h)
    /\ \E h \in Heights : ~get_bit(proved.res.leaves_bitmap[1], h)
    /\ Len(proved.res.proof) >= 1

(***************************************************************************)
(* C23.  For every non-empty list of distinct keys, with and without a     *)
(* leaf, merkle_proof returns a proof whose verify against the root, given *)
(* for each key in ascending order the value the tree holds (None or zero  *)
(* for a key without a leaf), returns true; and the proof holds no sibling *)
(* that another proven key covers: its entries are the children, not Zero, *)
(* opposite to the proven keys at the branches below whose other child no  *)
(* proven key lies.                                                        *)
(***************************************************************************)
\* what the tree holds for each of the keys, in ascending order; a key
\* without a leaf claimed as absent
actual_leaves(s, keys, absent) ==
    LET sorted == sort_unstable(keys)
    IN  [i \in 1..Len(keys) |->
            <<sorted[i], IF has_leaf(s, sorted[i])
                         THEN Some(to_h256(unwrap(get_leaf(s, sorted[i]))))
                         ELSE absent>>]

\* another of the keys lies below the sibling of key at height h
covered(keys, key, h) ==
    \E i \in 1..Len(keys) :
        /\ parent_path(keys[i], h) = parent_path(key, h)
        /\ get_bit(keys[i], h) # get_bit(key, h)

\* the siblings a proof of keys has to carry
siblings_needed(s, keys) ==
    {IF get_bit(x[1], x[2])
     THEN s.branches_map[BranchKey(x[2], parent_path(x[1], x[2]))].left
     ELSE s.branches_map[BranchKey(x[2], parent_path(x[1], x[2]))].right :
        x \in {y \in {<<keys[i], h>> : i \in 1..Len(keys), h \in Heights} :
                 /\ ~covered(keys, y[1], y[2])
                 /\ \E k \in DOMAIN s.leaves_map :
                       /\ parent_path(k, y[2]) = parent_path(y[1], y[2])
                       /\ get_bit(k, y[2]) # get_bit(y[1], y[2])}}

C23_ProofOfDistinctKeysVerifies ==
    (is_some(proof_out) /\ proved.keys # <<>> /\ distinct(proved.keys)) =>
        /\ proved.res.status = "Ok"
        /\ accepts(the_proof, root(store), actual_leaves(store, proved.keys, None))
        /\ accepts(the_proof, root(store),
                   actual_leaves(store, proved.keys, Some(h256_zero)))
        /\ {proved.res.proof[j] : j \in 1..Len(proved.res.proof)}
               = siblings_needed(store, proved.keys)
        /\ Len(proved.res.proof) = Cardinality(siblings_needed(store, proved.keys))

\* three keys proven at once, with and without a leaf, one of them the
\* sibling of a stored leaf that is proven too, and a proof that carries a node
C23_Witness ==
    /\ is_some(proof_out)
    /\ Len(proved.keys) = 3
    /\ distinct(proved.keys)
    /\ \E i, j \in 1..3 : /\ covered(proved.keys, proved.keys[i], 0)
                          /\ has_leaf(store, proved.keys[i])
                          /\ ~has_leaf(store, proved.keys[j])
    /\ Len(proved.res.proof) >= 1
    /\ accepts(the_proof, root(store), actual_leaves(store, proved.keys, None))

(***************************************************************************)
(* SpecDup: one tree driven by update, remove and update_all; last.args is *)
(* the batch as the caller gave it and last.expect the root the same store *)
(* reaches when only the last pair of every key is written, by update.     *)
(***************************************************************************)
UpdateAllDup(batch) ==
    /\ LET r == update_all(store, batch)
       IN  /\ store' = r.store
           /\ last' = [NoCall EXCEPT
                          !.op = "update_all",
                          !.panicked = r.panicked,
                          !.dup = has_dup(batch),
                          !.args = batch,
                          !.expect = Some(root(update_each(store,
                                                 dedup_last_wins(batch))))]
    /\ UNCHANGED <<noted, hist, proof_out, store2, last2, written>>

NextDup ==
    \/ \E batch \in Batches : UpdateAllDup(batch)
    \/ \E key \in Keys, value \in Values : UpdateOne(key, value)
    \/ \E key \in Keys : RemoveOne(key)

SpecDup == Init /\ [][NextDup]_vars

\* the value of the last pair of key in the batch
last_submitted(batch, key) ==
    batch[CHOOSE i \in 1..Len(batch) :
              /\ batch[i][1] = key
              /\ \A j \in (i + 1)..Len(batch) : batch[j][1] # key][2]

\* the nodes update_all hands to hash_recompute_all
nodes_of(s, leaves) ==
    write_leaves(s, dedup_by_key(sort_by_key(reverse(leaves), 1), 1), <<>>)[2]

(***************************************************************************)
(* C24.  After update_all on a batch in which a key occurs more than once, *)
(* only the caller's last pair of each key has taken effect: the call      *)
(* returns, the leaf stored for the key is the last value submitted (no    *)
(* leaf when that value is zero), the root is the root of writing the last *)
(* pairs alone, and exactly one node of the key, made of that value,       *)
(* enters the recomputation.                                               *)
(***************************************************************************)
C24_LastPairOfAKeyWins ==
    (last.op = "update_all" /\ has_dup(last.args)) =>
        /\ ~last.panicked
        /\ store.root = last.expect
        /\ \A i \in 1..Len(last.args) :
              LET key == last.args[i][1]
                  value == last_submitted(last.args, key)
                  nodes == nodes_of(store, last.args)
              IN  /\ IF h256_is_zero(to_h256(value))
                     THEN ~has_leaf(store, key)
                     ELSE get_leaf(store, key) = Some(value)
                  /\ Cardinality({n \in 1..Len(nodes) : nodes[n][1] = key}) = 1
                  /\ \E n \in 1..Len(nodes) :
                        nodes[n] = <<key, from_h256(to_h256(value))>>

\* a batch of two pairs of one key and two values, neither zero, on a tree
\* with another leaf: the second value is the one stored
C24_Witness ==
    /\ last.op = "update_all"
    /\ Len(last.args) = 2
    /\ last.args[1][1] = last.args[2][1]
    /\ last.args[1][2] # last.args[2][2]
    /\ ~h256_is_zero(to_h256(last.args[1][2]))
    /\ get_leaf(store, last.args[1][1]) = Some(last.args[2][2])
    /\ Cardinality(DOMAIN store.leaves_map) >= 2

(***************************************************************************)
(* C25.  The leaf map never holds an entry whose value converts to the     *)
(* zero H256: update, update_all, remove and remove_all delete the entry   *)
(* instead of storing a zero; and root() is zero exactly when the leaf map *)
(* is empty.                                                               *)
(***************************************************************************)
C25_NoZeroLeafAndZeroRootIffNoLeaf ==
    /\ \A k \in DOMAIN store.leaves_map :
          ~h256_is_zero(to_h256(store.leaves_map[k]))
    /\ h256_is_zero(root(store)) <=> (DOMAIN store.leaves_map = {})
    /\ (last.op = "remove" /\ ~last.panicked) => ~has_leaf(store, last.key)

\* a leaf removed from a tree that keeps another leaf, so the root is not zero
C25_Witness ==
    /\ last.op = "remove"
    /\ ~last.noop
    /\ ~has_leaf(store, last.key)
    /\ DOMAIN store.leaves_map # {}
    /\ ~h256_is_zero(root(store))

\* the last leaf removed: the root is zero again
C25_EmptiedWitness ==
    /\ last.op \in {"remove", "remove_all", "update_all"}
    /\ is_some(store.root)
    /\ DOMAIN store.leaves_map = {}
    /\ h256_is_zero(root(store))

(***************************************************************************)
(* C26.  For distinct keys a and b with f = fork_height(a, b): f is the    *)
(* highest bit at which they differ, they have the same branch key         *)
(* (h, parent_path(h)) at every height h >= f and different ones at every  *)
(* h < f, and lie on opposite sides at height f.  So after update(a, va)   *)
(* and update(b, vb), neither value zero, the branch at                    *)
(* (f, a.parent_path(f)) has both children not Zero; and in update_all two *)
(* nodes of one height with the same parent are adjacent in the list, pass *)
(* the neighbor test and are written as left and right of one branch, with *)
(* one node for the parent in the next list.                               *)
(***************************************************************************)
forks_as_said(a, b) ==
    LET f == fork_height(a, b)
    IN  /\ get_bit(a, f) # get_bit(b, f)
        /\ \A h \in Heights : h > f => get_bit(a, h) = get_bit(b, h)
        /\ \A h \in Heights :
              (parent_path(a, h) = parent_path(b, h)) <=> (h >= f)
        /\ is_right(a, f) # is_right(b, f)

\* the step is update(b, vb) after update(a, va), both leaves stored
two_updates_fork ==
    (/\ last.op = "update" /\ has_leaf(store, last.key)
     /\ last'.op = "update" /\ has_leaf(store', last'.key)
     /\ last.key # last'.key) =>
        LET a == last.key
            b == last'.key
            f == fork_height(a, b)
            branch_key == BranchKey(f, parent_path(a, f))
        IN  /\ forks_as_said(a, b)
            /\ branch_key = BranchKey(f, parent_path(b, f))
            /\ branch_key \in DOMAIN store'.branches_map
            /\ ~is_zero(store'.branches_map[branch_key].left)
            /\ ~is_zero(store'.branches_map[branch_key].right)

\* two nodes of one height with one parent, in the list nodes that gives
\* next_nodes, in a call that leaves the store t
merged_as_neighbors(nodes, next_nodes, h, t) ==
    \A i, j \in 1..Len(nodes) :
        (i < j /\ parent_path(nodes[i][1], h) = parent_path(nodes[j][1], h)) =>
            LET branch_key == BranchKey(h, parent_path(nodes[i][1], h))
            IN  /\ forks_as_said(nodes[i][1], nodes[j][1])
                /\ fork_height(nodes[i][1], nodes[j][1]) = h
                /\ j = i + 1
                /\ neighbor(nodes, i, h) = Some(nodes[j][2])
                /\ IF is_zero(nodes[i][2]) /\ is_zero(nodes[j][2])
                   THEN branch_key \notin DOMAIN t.branches_map
                   ELSE /\ branch_key \in DOMAIN t.branches_map
                        /\ t.branches_map[branch_key]
                             = [left |-> nodes[i][2], right |-> nodes[j][2]]
                /\ Cardinality({n \in 1..Len(next_nodes) :
                       next_nodes[n][1] = parent_path(nodes[i][1], h)}) = 1

\* the loop of hash_recompute_all from height on, nodes being the list of
\* that height.  (The set of one element makes TLC work each list out once.)
RECURSIVE levels_merged(_, _, _, _)
levels_merged(s, nodes, height, t) ==
    IF height > MaxHeight THEN TRUE
    ELSE \A r \in {recompute_level(s, nodes, height, 1, <<>>)} :
            /\ merged_as_neighbors(nodes, r[2], height, t)
            /\ levels_merged(r[1], r[2], height + 1, t)

\* the step is an update_all that returned
batch_neighbors_merged ==
    (last'.op = "update_all" /\ ~last'.panicked) =>
        \A w \in {write_leaves(store,
                     dedup_by_key(sort_by_key(reverse(last'.args), 1), 1),
                     <<>>)} :
            levels_merged(w[1], w[2], 0, store')

====
